---- MODULE Spec2Model ----
(***************************************************************************)
(* Incremental face scan of hebPhotoSort (server/src/services/faceService): *)
(* the on-disk cache and its invalidation rule (loadFaceCache,              *)
(* saveFaceCache, categorizeFiles), the bounded task runner with            *)
(* cooperative cancellation (createLimiter), the greedy clustering          *)
(* (assignToClusters, clustersToFaces) and the orchestrator (scanFaces).    *)
(*                                                                          *)
(* Embeddings are one-dimensional and measured in hundredths, so that the   *)
(* distance threshold 0.52 is the integer 52; a centroid is kept as the     *)
(* exact fraction num/den (Float32 rounding is not modelled).               *)
(***************************************************************************)
EXTENDS Integers, Sequences, FiniteSets, TLC

\* ------------------------------------------------------------------ constants
MAX_SAMPLES == 96
MAX_RESULTS_PER_FACE == 96
FACE_DISTANCE_THRESHOLD == 52
CACHE_VERSION == 1
CACHE_SAVE_INTERVAL == 5

\* ------------------------------------------------------------------ bounds
MaxRuns == 2
MaxAssign == 4
MaxSaves == 3
MaxGroups == 3
MaxScans == 2
MaxProgress == 1

\* concurrency limits tried (options.concurrency)
Limits == {1, 2, 3}

\* ------------------------------------------------------------------ paths
\* A path is a tuple of characters; collectMedia yields them with the
\* platform separator (path.join on the target platform, Windows).
PathA == <<"r", "\\", "a">>
PathB == <<"r", "\\", "b">>
PathC == <<"r", "\\", "c">>
PathD == <<"r", "\\", "d">>
PathE == <<"r", "\\", "e">>
PathG == <<"r", "\\", "g">>
PathH == <<"s", "\\", "h">>
PathP == <<"t", "\\", "p">>
PathQ == <<"t", "\\", "q">>
PathR == <<"t", "\\", "r">>

\* the files the environment deletes or touches between scans, and the
\* modification times it sets
Deletable == {PathA}
Touchable == {PathB}
Mtimes == {1, 2, 3}

\* the directory listing, in readdir order
AllFiles == <<PathA, PathB, PathC, PathD, PathE>>

\* two small directories: h is a group photo with more faces than
\* MAX_SAMPLES; p and q show the same face, r another one
CapFiles == <<PathH, PathA>>
TrioFiles == <<PathP, PathQ, PathR>>

Range(s) == {s[i] : i \in DOMAIN s}

SmallFiles == Range(CapFiles) \cup Range(TrioFiles)

Min(a, b) == IF a <= b THEN a ELSE b

Abs(x) == IF x < 0 THEN -x ELSE x

\* file.replace(/\\/g, '/')
NormalizePath(file) == [i \in DOMAIN file |-> IF file[i] = "\\" THEN "/" ELSE file[i]]

\* ------------------------------------------------------------------ detector
\* detectFacesInFile: the faces the (external) detector finds in each file,
\* each tagged with the file's path.
Descriptors(file) ==
    CASE file = PathA -> <<0>>
      [] file = PathB -> <<104>>
      [] file = PathC -> <<52>>
      [] file = PathD -> <<>>
      [] file = PathE -> <<10, 400>>
      [] file = PathH -> [i \in 1..(MAX_SAMPLES + 1) |-> IF i <= MAX_SAMPLES THEN 0 ELSE 900]
      [] file = PathP -> <<7>>
      [] file = PathQ -> <<7>>
      [] file = PathR -> <<300>>
      [] OTHER -> <<52>>

detectFacesInFile(file) ==
    [i \in DOMAIN Descriptors(file) |-> [descriptor |-> Descriptors(file)[i], path |-> file]]

\* every detection kept
SliceSamplesAll(faces) == faces

\* faces.slice(0, MAX_SAMPLES)
SliceSamples(faces) == SubSeq(faces, 1, Min(Len(faces), MAX_SAMPLES))

\* ------------------------------------------------------------------ cache store
\* The cache file is a record: raw tells what a reader gets from it ("absent":
\* no file, "unreadable": fs.readFile rejects, "unparsable": JSON.parse
\* throws, "json": a document with the fields version and files).
\* NoCache is both the missing file and the null that loadFaceCache returns.
NoCache == [raw |-> "absent", version |-> -1, files |-> <<>>]
Unreadable == [raw |-> "unreadable", version |-> -1, files |-> <<>>]
Malformed == [raw |-> "unparsable", version |-> -1, files |-> <<>>]

\* an exception leaving loadFaceCache
Thrown == [raw |-> "thrown", version |-> -1, files |-> <<>>]

\* loadFaceCache without its try/catch
loadFaceCacheNoCatch(diskDoc) ==
    IF diskDoc.raw = "absent" THEN NoCache
    ELSE IF diskDoc.raw = "unreadable" THEN Thrown
    ELSE IF diskDoc.raw = "unparsable" THEN Thrown
    ELSE IF diskDoc.version # CACHE_VERSION THEN NoCache
    ELSE diskDoc

\* loadFaceCache without the version check
loadFaceCacheAnyVersion(diskDoc) ==
    IF diskDoc.raw = "absent" THEN NoCache
    ELSE IF diskDoc.raw = "unreadable" THEN NoCache
    ELSE IF diskDoc.raw = "unparsable" THEN NoCache
    ELSE diskDoc

\* loadFaceCache: null (NoCache) when the file is missing, when reading or
\* parsing it throws (caught), or when its version differs
loadFaceCache(diskDoc) ==
    IF diskDoc.raw = "absent" THEN NoCache
    ELSE IF diskDoc.raw = "unreadable" THEN NoCache
    ELSE IF diskDoc.raw = "unparsable" THEN NoCache
    ELSE IF diskDoc.version # CACHE_VERSION THEN NoCache
    ELSE diskDoc

\* the document written when cacheData.files is read from the wrong object
saveFaceCacheEmpty(cacheFiles) == [raw |-> "json", version |-> CACHE_VERSION, files |-> <<>>]

\* saveFaceCache: the document handed to fs.writeFile
saveFaceCache(cacheFiles) == [raw |-> "json", version |-> CACHE_VERSION, files |-> cacheFiles]

\* cache?.files || {}
FilesOf(cache) == IF cache = NoCache THEN <<>> ELSE cache.files

\* the assignment made on a copy that holds nothing else
PutLost(obj, key, value) == (key :> value)

\* obj[key] = value
Put(obj, key, value) == (key :> value) @@ obj

\* path.basename(file): the last component of the path
basename(file) == file[Len(file)]

\* activeFiles.set(filename, { startTime, path: file })
activeSet(active, file) == Put(active, basename(file), file)

\* activeFiles.delete(filename)
activeDelete(active, file) == [k \in DOMAIN active \ {basename(file)} |-> active[k]]

\* activeFiles after the bodies of the tasks in `files` started, in order
RECURSIVE activeStart(_, _)
activeStart(active, files) ==
    IF files = <<>> THEN active
    ELSE activeStart(activeSet(active, Head(files)), Tail(files))

\* a cache entry stamped with a time later than the file's mtime
CacheEntryStamped(mtime, faces) ==
    [mtime |-> mtime + 1,
     facesCount |-> Len(faces),
     faces |-> [i \in DOMAIN SliceSamples(faces) |-> [descriptor |-> faces[i].descriptor]]]

\* the cache entry a scan task stores for a file
CacheEntry(mtime, faces) ==
    [mtime |-> mtime,
     facesCount |-> Len(faces),
     faces |-> [i \in DOMAIN SliceSamples(faces) |-> [descriptor |-> faces[i].descriptor]]]

\* "not newer than the cached copy" instead of "equal"
SameMtimeNotNewer(currentMtime, cachedEntry) == currentMtime <= cachedEntry.mtime

\* "not older than the cached copy" instead of "equal"
SameMtimeNotOlder(currentMtime, cachedEntry) == currentMtime >= cachedEntry.mtime

\* currentMtime === cachedEntry.mtime
SameMtime(currentMtime, cachedEntry) == currentMtime = cachedEntry.mtime

\* categorizeFiles: the loop over mediaFiles, from index i, accumulating
RECURSIVE CategorizeFrom(_, _, _, _, _)
CategorizeFrom(mediaFiles, cache, mt, i, acc) ==
    IF i > Len(mediaFiles) THEN acc
    ELSE LET file == mediaFiles[i]
             normalizedPath == NormalizePath(file)
             hasEntry == normalizedPath \in DOMAIN FilesOf(cache)
         IN IF hasEntry
            THEN IF SameMtime(mt[file], FilesOf(cache)[normalizedPath])
                 THEN CategorizeFrom(mediaFiles, cache, mt, i + 1,
                        [acc EXCEPT !.cached = Append(@, [path |-> file, data |-> FilesOf(cache)[normalizedPath]]),
                                    !.cachedPaths = @ \ {normalizedPath}])
                 ELSE CategorizeFrom(mediaFiles, cache, mt, i + 1,
                        [acc EXCEPT !.toScan = Append(@, file),
                                    !.cachedPaths = @ \ {normalizedPath}])
            ELSE CategorizeFrom(mediaFiles, cache, mt, i + 1,
                        [acc EXCEPT !.toScan = Append(@, file)])

categorizeFiles(mediaFiles, cache, mt) ==
    LET r == CategorizeFrom(mediaFiles, cache, mt, 1,
                 [cached |-> <<>>, toScan |-> <<>>, cachedPaths |-> DOMAIN FilesOf(cache)])
    IN [cached |-> r.cached, toScan |-> r.toScan, removed |-> r.cachedPaths]

\* ------------------------------------------------------------------ clustering
\* the search stopping at the first cluster
NearestFromFirst(clusters, descriptor, i, best) ==
    IF clusters = <<>> THEN best
    ELSE [idx |-> 1,
          num |-> Abs(descriptor * clusters[1].centroid.den - clusters[1].centroid.num),
          den |-> clusters[1].centroid.den]

\* the minimum search written with `dist <= bestDist`
RECURSIVE NearestFromLast(_, _, _, _)
NearestFromLast(clusters, descriptor, i, best) ==
    IF i > Len(clusters) THEN best
    ELSE LET c == clusters[i].centroid
             num == Abs(descriptor * c.den - c.num)
             closer == best.idx = -1 \/ num * best.den <= best.num * c.den
         IN NearestFromLast(clusters, descriptor, i + 1,
                IF closer THEN [idx |-> i, num |-> num, den |-> c.den] ELSE best)

\* the minimum search of assignToClusters: best = [idx, num, den] with
\* bestDist = num/den (idx = -1: no candidate, bestDist = +infinity)
RECURSIVE NearestFrom(_, _, _, _)
NearestFrom(clusters, descriptor, i, best) ==
    IF i > Len(clusters) THEN best
    ELSE LET c == clusters[i].centroid
             num == Abs(descriptor * c.den - c.num)
             closer == best.idx = -1 \/ num * best.den < best.num * c.den
         IN NearestFrom(clusters, descriptor, i + 1,
                IF closer THEN [idx |-> i, num |-> num, den |-> c.den] ELSE best)

\* sum of s[lo..hi], halving the range
RECURSIVE SumRange(_, _, _)
SumRange(s, lo, hi) ==
    IF lo > hi THEN 0
    ELSE IF lo = hi THEN s[lo]
    ELSE LET mid == (lo + hi) \div 2
         IN SumRange(s, lo, mid) + SumRange(s, mid + 1, hi)

\* the sum that leaves out the first member
SumSeqSkipFirst(s) == SumRange(s, 2, Len(s))

SumSeq(s) == SumRange(s, 1, Len(s))

\* the Set replaced by one holding only the new path
SetAddReplace(s, x) == <<x>>

\* Set.add on an insertion-ordered Set
SetAdd(s, x) == IF x \in Range(s) THEN s ELSE Append(s, x)

\* a sample that joins no cluster takes the place of the newest cluster
assignToClustersEvicting(clusters, faceSample) ==
    LET descriptor == faceSample.descriptor
        best == NearestFrom(clusters, descriptor, 1, [idx |-> -1, num |-> 0, den |-> 1])
        single == [centroid |-> [num |-> descriptor, den |-> 1],
                   descriptors |-> <<descriptor>>,
                   paths |-> <<faceSample.path>>]
    IN IF best.idx # -1 /\ best.num <= FACE_DISTANCE_THRESHOLD * best.den
       THEN LET cluster == clusters[best.idx]
                descriptors == Append(cluster.descriptors, descriptor)
            IN [clusters EXCEPT ![best.idx] =
                   [centroid |-> [num |-> SumSeq(descriptors), den |-> Len(descriptors)],
                    descriptors |-> descriptors,
                    paths |-> SetAdd(cluster.paths, faceSample.path)]]
       ELSE IF clusters = <<>> THEN <<single>>
       ELSE [clusters EXCEPT ![Len(clusters)] = single]

assignToClusters(clusters, faceSample) ==
    LET descriptor == faceSample.descriptor
        best == NearestFrom(clusters, descriptor, 1, [idx |-> -1, num |-> 0, den |-> 1])
    IN IF best.idx # -1 /\ best.num <= FACE_DISTANCE_THRESHOLD * best.den
       THEN LET cluster == clusters[best.idx]
                descriptors == Append(cluster.descriptors, descriptor)
            IN [clusters EXCEPT ![best.idx] =
                   [centroid |-> [num |-> SumSeq(descriptors), den |-> Len(descriptors)],
                    descriptors |-> descriptors,
                    paths |-> SetAdd(cluster.paths, faceSample.path)]]
       ELSE Append(clusters,
                   [centroid |-> [num |-> descriptor, den |-> 1],
                    descriptors |-> <<descriptor>>,
                    paths |-> <<faceSample.path>>])

\* samples.forEach(s => assignToClusters(clusters, s))
RECURSIVE AssignAll(_, _)
AssignAll(clusters, samples) ==
    IF samples = <<>> \/ Len(clusters) < 0 THEN clusters
    ELSE AssignAll(assignToClusters(clusters, Head(samples)), Tail(samples))

\* the face samples rebuilt from a cached entry (path: filePath)
Rehydrate(filePath, data) ==
    [i \in DOMAIN data.faces |-> [descriptor |-> data.faces[i].descriptor, path |-> filePath]]

\* the cached files rehydrated last to first
RECURSIVE RehydrateAllReversed(_, _)
RehydrateAllReversed(clusters, cached) ==
    IF cached = <<>> THEN clusters
    ELSE RehydrateAllReversed(
             AssignAll(clusters, Rehydrate(cached[Len(cached)].path, cached[Len(cached)].data)),
             SubSeq(cached, 1, Len(cached) - 1))

\* the loop over `cached` of scanFaces
RECURSIVE RehydrateAll(_, _)
RehydrateAll(clusters, cached) ==
    IF cached = <<>> THEN clusters
    ELSE RehydrateAll(AssignAll(clusters, Rehydrate(Head(cached).path, Head(cached).data)),
                      Tail(cached))

\* faces.sort((a, b) => b.count - a.count): stable insertion by descending count
RECURSIVE InsertByCount(_, _)
InsertByCount(sorted, face) ==
    IF sorted = <<>> THEN <<face>>
    ELSE IF Head(sorted).count >= face.count
         THEN <<Head(sorted)>> \o InsertByCount(Tail(sorted), face)
         ELSE <<face>> \o sorted

RECURSIVE SortByCount(_)
SortByCount(faces) ==
    IF faces = <<>> THEN <<>>
    ELSE InsertByCount(SortByCount(SubSeq(faces, 1, Len(faces) - 1)), faces[Len(faces)])

\* count taken from the number of detections instead of the number of files
clustersToFacesCountingFaces(clusters) ==
    SortByCount([idx \in DOMAIN clusters |->
        [id |-> idx,
         count |-> Len(clusters[idx].descriptors),
         paths |-> SubSeq(clusters[idx].paths, 1, Min(Len(clusters[idx].paths), MAX_RESULTS_PER_FACE))]])

clustersToFaces(clusters) ==
    SortByCount([idx \in DOMAIN clusters |->
        [id |-> idx,
         count |-> Len(clusters[idx].paths),
         paths |-> SubSeq(clusters[idx].paths, 1, Min(Len(clusters[idx].paths), MAX_RESULTS_PER_FACE))]])

\* ------------------------------------------------------------------ limiter
\* createLimiter: the closure state.  promise[t] is the state of the promise
\* returned for task t; submitted lists the tasks in the order they were handed
\* to the limiter, started in the order runNext took them from the queue;
\* called is the set of tasks whose fn was invoked.
NewLimiter(tasks) ==
    [active |-> 0, queue |-> <<>>, promise |-> [t \in tasks |-> "none"],
     submitted |-> <<>>, started |-> <<>>, called |-> {}]

\* signal?.aborted === true
isCancelled(aborted) == aborted = TRUE

\* the queue emptied without resolving the promises of its tasks
clearQueueUnresolved(L) == [L EXCEPT !.queue = <<>>]

\* the queue cleared and the running tasks dropped as skipped too
clearQueueInterrupting(L) ==
    [L EXCEPT !.queue = <<>>,
              !.active = 0,
              !.promise = [t \in DOMAIN @ |-> IF @[t] \in {"queued", "running"} THEN "skipped" ELSE @[t]]]

\* clearQueue: every queued task resolves with {skipped: true}
clearQueue(L) ==
    [L EXCEPT !.queue = <<>>,
              !.promise = [t \in DOMAIN @ |-> IF t \in Range(L.queue) THEN "skipped" ELSE @[t]]]

\* runNext admitting a task while active equals the limit
runNextOverLimit(L, limit, aborted) ==
    IF isCancelled(aborted) THEN clearQueue(L)
    ELSE IF L.queue = <<>> \/ L.active > limit THEN L
    ELSE LET t == Head(L.queue)
         IN [L EXCEPT !.queue = Tail(@),
                      !.active = @ + 1,
                      !.promise[t] = "running",
                      !.started = Append(@, t),
                      !.called = @ \cup {t}]

\* runNext taking the newest queued task (queue.pop())
runNextNewestFirst(L, limit, aborted) ==
    IF isCancelled(aborted) THEN clearQueue(L)
    ELSE IF L.queue = <<>> \/ L.active >= limit THEN L
    ELSE LET t == L.queue[Len(L.queue)]
         IN [L EXCEPT !.queue = SubSeq(@, 1, Len(@) - 1),
                      !.active = @ + 1,
                      !.promise[t] = "running",
                      !.started = Append(@, t),
                      !.called = @ \cup {t}]

\* runNext clearing the queue also when every slot is busy
runNextClearWhenFull(L, limit, aborted) ==
    IF isCancelled(aborted) \/ (L.queue # <<>> /\ L.active >= limit) THEN clearQueue(L)
    ELSE IF L.queue = <<>> THEN L
    ELSE LET t == Head(L.queue)
         IN [L EXCEPT !.queue = Tail(@),
                      !.active = @ + 1,
                      !.promise[t] = "running",
                      !.started = Append(@, t),
                      !.called = @ \cup {t}]

\* runNext, including the synchronous start of the task it takes from the queue
runNext(L, limit, aborted) ==
    IF isCancelled(aborted) THEN clearQueue(L)
    ELSE IF L.queue = <<>> \/ L.active >= limit THEN L
    ELSE LET t == Head(L.queue)
         IN [L EXCEPT !.queue = Tail(@),
                      !.active = @ + 1,
                      !.promise[t] = "running",
                      !.started = Append(@, t),
                      !.called = @ \cup {t}]

\* the function returned by createLimiter, called with the task for t
submit(L, t, limit, aborted) ==
    IF isCancelled(aborted)
    THEN [L EXCEPT !.promise[t] = "skipped", !.submitted = Append(@, t)]
    ELSE runNext([L EXCEPT !.queue = Append(@, t), !.promise[t] = "queued",
                           !.submitted = Append(@, t)], limit, aborted)

\* the finally handler that frees the slot without calling runNext
settleWithoutNext(L, t, outcome, limit, aborted) ==
    [L EXCEPT !.promise[t] = outcome, !.active = @ - 1]

\* task().then(resolve).catch(reject).finally(() => { active -= 1; runNext() })
settle(L, t, outcome, limit, aborted) ==
    runNext([L EXCEPT !.promise[t] = outcome, !.active = @ - 1], limit, aborted)

\* toScan.map(file => limiter(...)): the submissions, in order
RECURSIVE SubmitAll(_, _, _, _)
SubmitAll(L, files, limit, aborted) ==
    IF files = <<>> THEN L
    ELSE SubmitAll(submit(L, Head(files), limit, aborted), Tail(files), limit, aborted)

Pending(L) == {t \in DOMAIN L.promise : L.promise[t] \in {"queued", "running"}}
Running(L) == {t \in DOMAIN L.promise : L.promise[t] = "running"}

\* ------------------------------------------------------------------ state
VARIABLES
    limit,          \* options.concurrency
    dirFiles,       \* the media files under the root, in enumeration order
    mtimeOf,        \* stat.mtimeMs of each file
    envChanged,     \* a file was deleted or touched since the last scan started
    disk,           \* the cache file of the root
    run,            \* number of scanFaces calls so far
    pc,             \* position of the current scanFaces call
    aborted,        \* signal.aborted of the current call
    abortPc,        \* where the call was when the signal was aborted
    rawDoc,         \* the cache file as loadFaceCache found it
    mediaFiles, existingCache, cached, toScan, removed,
    newCacheFiles, clusters, processed, lastCacheSave,
    lim,            \* the limiter of the current call
    phase,          \* where each scan task is in its body
    merged,         \* files in the order their faces were fed to clustering
    pendingSave,    \* the document each checkpointing task is writing
    saveCount,      \* cache-file writes completed by the current call
    result,         \* what the current call returned
    prev,           \* what the previous call left behind
    events,         \* the progress events the current call passed to onProgress
    detectedAt,     \* the mtime each file had when the detector read it
    activeFiles,    \* the Map of the files being processed, by file name
    socket          \* the Socket.IO connection and the scans started on it

vars == <<limit, dirFiles, mtimeOf, envChanged, disk, run, pc, aborted, abortPc, rawDoc, mediaFiles, existingCache,
          cached, toScan, removed, newCacheFiles, clusters, processed, lastCacheSave,
          lim, phase, merged, pendingSave, saveCount, result, prev, events, detectedAt,
          activeFiles, socket>>

envVars == <<limit, dirFiles, mtimeOf, envChanged, socket>>
localVars == <<rawDoc, mediaFiles, existingCache, cached, toScan, removed, detectedAt, activeFiles>>

NoResult == [kind |-> "none"]

\* no Socket.IO connection: scanFaces called directly
NoSocket == [connected |-> FALSE, current |-> 0, scans |-> <<>>, emitted |-> <<>>]

\* a progress event; a field the event does not have is -1 (faces: <<>>)
Event(name, current, total, faces) ==
    [phase |-> name, current |-> current, total |-> total, faces |-> faces,
     scanned |-> -1, toScan |-> -1, activeCount |-> -1]

Ev(name) == Event(name, -1, -1, <<>>)

\* the first scan-phase event, sent before any task is submitted
InitialScanEvent(nCached, total, nToScan) ==
    [Event("scan", nCached, total, <<>>) EXCEPT !.toScan = nToScan]

\* sendProgressUpdate reporting `processed` as current
ProgressUpdateWithoutCached(current, total, nScanned, nToScan, active) ==
    [Event("scan", nScanned, total, <<>>) EXCEPT !.scanned = nScanned, !.toScan = nToScan,
                                                 !.activeCount = Cardinality(DOMAIN active)]

\* the event sendProgressUpdate sends (the interim face list is left out)
ProgressUpdate(current, total, nScanned, nToScan, active) ==
    [Event("scan", current, total, <<>>) EXCEPT !.scanned = nScanned, !.toScan = nToScan,
                                                !.activeCount = Cardinality(DOMAIN active)]

\* the reports of the tasks of `files` as their bodies start, in order: each
\* enters itself in activeFiles and calls sendProgressUpdate
RECURSIVE ScanEvents(_, _, _, _, _, _)
ScanEvents(active, files, current, total, nScanned, nToScan) ==
    IF files = <<>> THEN <<>>
    ELSE LET now == activeSet(active, Head(files))
         IN <<ProgressUpdate(current, total, nScanned, nToScan, now)>>
            \o ScanEvents(now, Tail(files), current, total, nScanned, nToScan)

\* the tasks runNext started between two states of the limiter
Started(L, L2) == SubSeq(L2.started, Len(L.started) + 1, Len(L2.started))

NoPrev == [kind |-> "none"]

\* A cache document left by an earlier scan of the directory, after which
\* b was touched (newer), c was restored from a backup (older), d and e were
\* added and g was deleted.
PriorDoc ==
    [raw |-> "json", version |-> CACHE_VERSION,
     files |-> (NormalizePath(PathA) :> CacheEntry(2, detectFacesInFile(PathA)))
            @@ (NormalizePath(PathB) :> CacheEntry(1, detectFacesInFile(PathB)))
            @@ (NormalizePath(PathC) :> CacheEntry(3, detectFacesInFile(PathC)))
            @@ (NormalizePath(PathG) :> CacheEntry(2, detectFacesInFile(PathG)))]

\* A document written under an earlier schema version: the entry of a has
\* the file's current mtime but other detections, g was deleted since.
OldDoc ==
    [raw |-> "json", version |-> CACHE_VERSION - 1,
     files |-> (NormalizePath(PathA) :> CacheEntry(2, detectFacesInFile(PathB)))
            @@ (NormalizePath(PathG) :> CacheEntry(2, detectFacesInFile(PathG)))]

\* the cache files a scan may find in a directory
DiskDocs == {NoCache, PriorDoc, OldDoc, Malformed, Unreadable}

Init ==
    /\ limit \in Limits
    /\ dirFiles \in {AllFiles, <<>>}
    /\ mtimeOf = [f \in Range(AllFiles) |-> 2]
    /\ envChanged = FALSE
    /\ disk \in {NoCache, PriorDoc}
    /\ run = 0
    /\ pc = "idle"
    /\ aborted = FALSE
    /\ abortPc = "none"
    /\ rawDoc = NoCache
    /\ mediaFiles = <<>>
    /\ existingCache = NoCache
    /\ cached = <<>>
    /\ toScan = <<>>
    /\ removed = {}
    /\ newCacheFiles = <<>>
    /\ clusters = <<>>
    /\ processed = 0
    /\ lastCacheSave = 0
    /\ lim = NewLimiter({})
    /\ phase = <<>>
    /\ merged = <<>>
    /\ pendingSave = <<>>
    /\ saveCount = 0
    /\ result = NoResult
    /\ prev = NoPrev
    /\ events = <<>>
    /\ detectedAt = <<>>
    /\ activeFiles = <<>>
    /\ socket = NoSocket

\* what a finished call leaves for the next one to be compared with
Snapshot ==
    [kind |-> "run", result |-> result, merged |-> merged, mediaFiles |-> mediaFiles,
     changed |-> envChanged, cached |-> [i \in DOMAIN cached |-> cached[i].path],
     promise |-> lim.promise, detectedAt |-> detectedAt]

\* the sourcePath arguments: a readable directory, an empty string, a path
\* that does not exist, a directory the process may not read
Roots == {"ok", "empty", "missing", "unreadable"}

\* the validation that skips fs.access
RootErrorNoAccess(root) ==
    IF root = "empty" THEN [kind |-> "error", code |-> "none"]
    ELSE IF root = "missing" THEN [kind |-> "error", code |-> "ENOENT"]
    ELSE NoResult

\* the validation of the root path: the error scanFaces throws, NoResult
\* when the path is accepted
RootError(root) ==
    IF root = "empty" THEN [kind |-> "error", code |-> "none"]
    ELSE IF root = "missing" THEN [kind |-> "error", code |-> "ENOENT"]
    ELSE IF root = "unreadable" THEN [kind |-> "error", code |-> "EACCES"]
    ELSE NoResult

\* a done event that carries no counts
EmptyDoneUncounted == Ev("done")

\* the done event of an empty enumeration
EmptyDone == Event("done", 0, 0, <<>>)

\* scanFaces up to the end of collectMedia
StartScan(root) ==
    /\ pc \in {"idle", "returned", "failed"}
    /\ run < MaxRuns
    /\ lim.active = 0
    /\ run' = run + 1
    /\ prev' = IF run = 0 THEN NoPrev ELSE Snapshot
    /\ aborted' = FALSE
    /\ abortPc' = "none"
    /\ rawDoc' = NoCache
    /\ existingCache' = NoCache
    /\ cached' = <<>>
    /\ toScan' = <<>>
    /\ removed' = {}
    /\ newCacheFiles' = <<>>
    /\ clusters' = <<>>
    /\ processed' = 0
    /\ lastCacheSave' = 0
    /\ lim' = NewLimiter({})
    /\ phase' = <<>>
    /\ merged' = <<>>
    /\ pendingSave' = <<>>
    /\ saveCount' = 0
    /\ detectedAt' = <<>>
    /\ activeFiles' = <<>>
    /\ IF RootError(root).kind = "error"
       THEN /\ pc' = "failed"
            /\ result' = RootError(root)
            /\ mediaFiles' = <<>>
            /\ events' = <<>>
       ELSE /\ mediaFiles' = dirFiles
            /\ IF dirFiles = <<>>
               THEN /\ pc' = "returned"
                    /\ result' = [kind |-> "summary", faces |-> <<>>, totalFiles |-> 0,
                                  groupCount |-> 0, cancelled |-> FALSE, hasStats |-> FALSE,
                                  cacheStats |-> <<>>]
                    /\ events' = <<Ev("init"), Ev("collect"), EmptyDone>>
               ELSE /\ pc' = "collected"
                    /\ result' = NoResult
                    /\ events' = <<Ev("init"), Ev("collect")>>
    /\ envChanged' = FALSE
    /\ UNCHANGED <<limit, dirFiles, mtimeOf, disk, socket>>

\* "Check if cancelled after collecting files"
CheckCancelled ==
    /\ pc = "collected"
    /\ IF isCancelled(aborted)
       THEN /\ pc' = "returned"
            /\ result' = [kind |-> "summary", faces |-> <<>>, totalFiles |-> 0, groupCount |-> 0,
                          cancelled |-> TRUE, hasStats |-> FALSE, cacheStats |-> <<>>]
       ELSE /\ pc' = "loading"
            /\ UNCHANGED result
    /\ UNCHANGED <<envVars, disk, run, aborted, abortPc, localVars, newCacheFiles, clusters, processed,
                   lastCacheSave, lim, phase, merged, pendingSave, saveCount, prev, events>>

\* newCacheFiles after the loop over `cached`
RECURSIVE CarryCached(_, _)
CarryCached(files, cachedList) ==
    IF cachedList = <<>> THEN files
    ELSE CarryCached(Put(files, NormalizePath(Head(cachedList).path), Head(cachedList).data),
                     Tail(cachedList))

\* loadFaceCache, categorizeFiles, the rehydration of the cached files and the
\* submission of every file of toScan to the limiter
\* (an exception leaving loadFaceCache would reject scanFaces at its await)
CacheDiff ==
    /\ pc = "loading"
    /\ rawDoc' = disk
    /\ LET cache == loadFaceCache(disk)
           cat == categorizeFiles(mediaFiles, cache, mtimeOf)
       IN IF cache = Thrown
          THEN /\ pc' = "rejected"
               /\ result' = [kind |-> "error"]
               /\ events' = Append(events, Ev("cache"))
               /\ UNCHANGED <<existingCache, cached, toScan, removed, newCacheFiles, clusters,
                              merged, lim, phase, activeFiles>>
          ELSE /\ existingCache' = cache
               /\ cached' = cat.cached
               /\ toScan' = cat.toScan
               /\ removed' = cat.removed
               /\ newCacheFiles' = CarryCached(FilesOf(cache), cat.cached)
               /\ clusters' = RehydrateAll(<<>>, cat.cached)
               /\ merged' = [i \in DOMAIN cat.cached |-> cat.cached[i].path]
               /\ lim' = SubmitAll(NewLimiter(Range(cat.toScan)), cat.toScan, limit, aborted)
               /\ phase' = [f \in Range(cat.toScan) |-> "detect"]
               /\ pc' = "scanning"
               /\ activeFiles' = activeStart(<<>>, lim'.started)
               /\ events' = events
                               \o <<Ev("cache"),
                                    InitialScanEvent(Len(cat.cached), Len(mediaFiles), Len(cat.toScan))>>
                               \o ScanEvents(<<>>, lim'.started, Len(cat.cached), Len(mediaFiles),
                                             0, Len(cat.toScan))
               /\ UNCHANGED result
    /\ UNCHANGED <<envVars, disk, run, aborted, abortPc, mediaFiles, processed, lastCacheSave,
                   pendingSave, saveCount, prev, detectedAt>>

\* a rejected task promise rejects Promise.all, and with it scanFaces
AfterReject(p) == IF p = "scanning" THEN "rejected" ELSE p

\* the detector call of a running task returns
\* a task body that stores an entry without detections before it awaits the
\* detector
TaskDetectStoresEntry(f) ==
    /\ pc \in {"scanning", "rejected"}
    /\ f \in Running(lim)
    /\ phase[f] = "detect"
    /\ IF NormalizePath(f) \in DOMAIN newCacheFiles
       THEN /\ phase' = [phase EXCEPT ![f] = "merge"]
            /\ UNCHANGED newCacheFiles
       ELSE /\ newCacheFiles' = Put(newCacheFiles, NormalizePath(f), CacheEntry(mtimeOf[f], <<>>))
            /\ UNCHANGED phase
    /\ UNCHANGED <<envVars, disk, run, pc, aborted, abortPc, localVars, clusters, processed,
                   lastCacheSave, lim, merged, pendingSave, saveCount, result, prev, events>>

\* await detectFacesInFile(file) of a running task completes
TaskDetect(f) ==
    /\ pc \in {"scanning", "rejected"}
    /\ f \in Running(lim)
    /\ phase[f] = "detect"
    /\ phase' = [phase EXCEPT ![f] = "merge"]
    /\ detectedAt' = Put(detectedAt, f, mtimeOf[f])
    /\ UNCHANGED <<envVars, disk, run, pc, aborted, abortPc, rawDoc, mediaFiles, existingCache,
                   cached, toScan, removed, activeFiles, newCacheFiles, clusters, processed,
                   lastCacheSave, lim, merged, pendingSave, saveCount, result, prev, events>>

\* how a task ends: its last progress report returns, or the progress
\* callback throws and the limiter logs and rethrows
Outcome(progressThrows) == IF progressThrows THEN "rejected" ELSE "processed"

\* a failing fs.writeFile rejecting saveFaceCache
SaveOutcomeThrows(saveFails) == IF saveFails THEN "thrown" ELSE "written"

\* saveFaceCache: the write succeeds, or it fails and the catch logs the error
SaveOutcome(saveFails) == IF saveFails THEN "logged" ELSE "written"

\* the progress events of a task that ends: its last report (unless the
\* callback threw) and the first report of each task runNext starts after it
TaskEndEvents(L, L2, reported, current, active) ==
    LET total == Len(mediaFiles)
        nScanned == current - Len(cached)
    IN (IF reported
        THEN <<ProgressUpdate(current, total, nScanned, Len(toScan), active)>>
        ELSE <<>>)
       \o ScanEvents(active, Started(L, L2), current, total, nScanned, Len(toScan))

\* the task body after its awaits: cache entry, clustering, processed += 1, and
\* either the start of a checkpoint or the end of the task
TaskMerge(f, progressThrows) ==
    /\ pc \in {"scanning", "rejected"}
    /\ f \in Running(lim)
    /\ phase[f] = "merge"
    /\ LET faces == detectFacesInFile(f)
           files == Put(newCacheFiles, NormalizePath(f), CacheEntry(mtimeOf[f], faces))
       IN /\ newCacheFiles' = files
          /\ clusters' = AssignAll(clusters, SliceSamples(faces))
          /\ merged' = Append(merged, f)
          /\ processed' = processed + 1
          /\ IF processed + 1 - lastCacheSave >= CACHE_SAVE_INTERVAL
             THEN /\ ~progressThrows
                  /\ phase' = [phase EXCEPT ![f] = "saving"]
                  /\ pendingSave' = Put(pendingSave, f, saveFaceCache(files))
                  /\ activeFiles' = activeDelete(activeFiles, f)
                  /\ UNCHANGED <<lim, pc, result, events>>
             ELSE /\ phase' = [phase EXCEPT ![f] = "done"]
                  /\ lim' = settle(lim, f, Outcome(progressThrows), limit, aborted)
                  /\ pc' = IF progressThrows THEN AfterReject(pc) ELSE pc
                  /\ result' = IF progressThrows /\ pc = "scanning"
                               THEN [kind |-> "error"] ELSE result
                  /\ activeFiles' = activeStart(activeDelete(activeFiles, f), Started(lim, lim'))
                  /\ events' = events \o TaskEndEvents(lim, lim', ~progressThrows,
                                                       Len(cached) + processed + 1,
                                                       activeDelete(activeFiles, f))
                  /\ UNCHANGED pendingSave
    /\ UNCHANGED <<envVars, disk, run, aborted, abortPc, rawDoc, mediaFiles, existingCache,
                   cached, toScan, removed, detectedAt, lastCacheSave, saveCount, prev>>

\* the checkpoint save of a task ends (written, or failed and logged):
\* lastCacheSave = processed, last progress report, task ends
TaskSaveDone(f, progressThrows, saveFails) ==
    /\ pc \in {"scanning", "rejected"}
    /\ f \in Running(lim)
    /\ phase[f] = "saving"
    /\ LET save == SaveOutcome(saveFails)
           throws == save = "thrown" \/ progressThrows
       IN /\ disk' = IF save = "written" THEN pendingSave[f] ELSE disk
          /\ saveCount' = IF save = "written" THEN saveCount + 1 ELSE saveCount
          /\ lastCacheSave' = IF save = "thrown" THEN lastCacheSave ELSE processed
          /\ phase' = [phase EXCEPT ![f] = "done"]
          /\ lim' = settle(lim, f, Outcome(throws), limit, aborted)
          /\ pc' = IF throws THEN AfterReject(pc) ELSE pc
          /\ result' = IF throws /\ pc = "scanning" THEN [kind |-> "error"] ELSE result
          /\ activeFiles' = activeStart(activeFiles, Started(lim, lim'))
          /\ events' = events \o TaskEndEvents(lim, lim', ~throws, Len(cached) + processed,
                                               activeFiles)
    /\ UNCHANGED <<envVars, run, aborted, abortPc, rawDoc, mediaFiles, existingCache, cached,
                   toScan, removed, detectedAt, newCacheFiles, clusters, processed, merged,
                   pendingSave, prev>>

\* the caller aborts the signal; the limiter's abort listener clears the queue
Abort ==
    /\ ~aborted
    /\ \/ pc \in {"collected", "loading"}
       \/ pc \in {"scanning", "rejected"} /\ Pending(lim) # {}
    /\ aborted' = TRUE
    /\ abortPc' = pc
    /\ lim' = IF pc \in {"scanning", "rejected"} THEN clearQueue(lim) ELSE lim
    /\ UNCHANGED <<envVars, disk, run, pc, localVars, newCacheFiles, clusters, processed,
                   lastCacheSave, phase, merged, pendingSave, saveCount, result, prev, events>>

\* the summary scanFaces returns after Promise.all
Summary(cancelled, scanned) ==
    [kind |-> "summary",
     faces |-> clustersToFaces(clusters),
     totalFiles |-> Len(mediaFiles),
     groupCount |-> Len(clustersToFaces(clusters)),
     cancelled |-> cancelled,
     hasStats |-> TRUE,
     cacheStats |-> [cached |-> Len(cached), scanned |-> scanned, removed |-> Cardinality(removed)]]

\* the final report sent as one more scan event
DoneEventAsScan == Event("scan", Len(mediaFiles), Len(mediaFiles), clustersToFaces(clusters))

\* the done event of a scan that ran to the end
DoneEvent ==
    [Event("done", Len(mediaFiles), Len(mediaFiles), clustersToFaces(clusters))
        EXCEPT !.scanned = Len(toScan)]

\* scanFaces after Promise.all: the cancelled branch or the final save
Finalize(saveFails) ==
    /\ pc = "scanning"
    /\ Pending(lim) = {}
    /\ LET save == SaveOutcome(saveFails)
       IN /\ disk' = IF save = "written" THEN saveFaceCache(newCacheFiles) ELSE disk
          /\ saveCount' = IF save = "written" THEN saveCount + 1 ELSE saveCount
          /\ IF save = "thrown"
             THEN /\ pc' = "rejected"
                  /\ result' = [kind |-> "error"]
                  /\ events' = IF isCancelled(aborted) THEN events
                                ELSE Append(events, Ev("cache-save"))
             ELSE /\ pc' = "returned"
                  /\ result' = IF isCancelled(aborted) THEN Summary(TRUE, processed)
                               ELSE Summary(FALSE, Len(toScan))
                  /\ events' = IF isCancelled(aborted) THEN events
                                ELSE events \o <<Ev("cache-save"), Ev("process"), DoneEvent>>
    /\ UNCHANGED <<envVars, run, aborted, abortPc, localVars, newCacheFiles, clusters, processed,
                   lastCacheSave, lim, phase, merged, pendingSave, prev>>

\* between two scans, a file is deleted from the directory
DeleteFile(f) ==
    /\ pc = "returned"
    /\ run < MaxRuns
    /\ f \in Range(dirFiles)
    /\ dirFiles' = SelectSeq(dirFiles, LAMBDA x : x # f)
    /\ envChanged' = TRUE
    /\ UNCHANGED <<limit, mtimeOf, disk, run, pc, aborted, abortPc, localVars, newCacheFiles, clusters,
                   processed, lastCacheSave, lim, phase, merged, pendingSave, saveCount,
                   result, prev, events, socket>>

\* between two scans, a file's modification time is set to another value
TouchFile(f, m) ==
    /\ pc = "returned"
    /\ run < MaxRuns
    /\ f \in Range(dirFiles)
    /\ mtimeOf[f] # m
    /\ mtimeOf' = [mtimeOf EXCEPT ![f] = m]
    /\ envChanged' = TRUE
    /\ UNCHANGED <<limit, dirFiles, disk, run, pc, aborted, abortPc, localVars, newCacheFiles, clusters,
                   processed, lastCacheSave, lim, phase, merged, pendingSave, saveCount,
                   result, prev, events, socket>>

\* (the root is a readable directory and the cache file is writable)
Next ==
    \/ StartScan("ok")
    \/ CheckCancelled
    \/ CacheDiff
    \/ \E f \in Range(AllFiles) : TaskDetect(f)
    \/ \E f \in Range(AllFiles), progressThrows \in BOOLEAN : TaskMerge(f, progressThrows)
    \/ \E f \in Range(AllFiles), progressThrows \in BOOLEAN : TaskSaveDone(f, progressThrows, FALSE)
    \/ Abort
    \/ Finalize(FALSE)
    \/ \E f \in Deletable : DeleteFile(f)
    \/ \E f \in Touchable, m \in Mtimes : TouchFile(f, m)

Spec == Init /\ [][Next]_vars

\* ------------------------------------------------------------------ small directories
\* scanFaces on a directory of fewer than CACHE_SAVE_INTERVAL files, which
\* nobody modifies: no task reaches a checkpoint.  The cache file found by
\* the first scan may be missing, unreadable, unparsable, of an earlier
\* version, or left by an earlier scan of another state of the directory.
InitSmall ==
    /\ limit \in Limits
    /\ dirFiles \in {CapFiles, TrioFiles}
    /\ mtimeOf = [f \in SmallFiles |-> 2]
    /\ envChanged = FALSE
    /\ disk \in DiskDocs
    /\ run = 0
    /\ pc = "idle"
    /\ aborted = FALSE
    /\ abortPc = "none"
    /\ rawDoc = NoCache
    /\ mediaFiles = <<>>
    /\ existingCache = NoCache
    /\ cached = <<>>
    /\ toScan = <<>>
    /\ removed = {}
    /\ newCacheFiles = <<>>
    /\ clusters = <<>>
    /\ processed = 0
    /\ lastCacheSave = 0
    /\ lim = NewLimiter({})
    /\ phase = <<>>
    /\ merged = <<>>
    /\ pendingSave = <<>>
    /\ saveCount = 0
    /\ result = NoResult
    /\ prev = NoPrev
    /\ events = <<>>
    /\ detectedAt = <<>>
    /\ activeFiles = <<>>
    /\ socket = NoSocket

NextSmall ==
    \/ \E root \in Roots : StartScan(root)
    \/ CheckCancelled
    \/ CacheDiff
    \/ \E f \in SmallFiles : TaskDetect(f)
    \/ \E f \in SmallFiles, progressThrows \in BOOLEAN : TaskMerge(f, progressThrows)
    \/ Abort
    \/ Finalize(FALSE)

SpecSmall == InitSmall /\ [][NextSmall]_vars

\* ------------------------------------------------------------------ limiter alone
\* The limiter driven by an arbitrary caller: tasks are submitted one at a
\* time, in any order, interleaved with completions, failures and the abort
\* of the signal.
scanVars == <<dirFiles, mtimeOf, envChanged, disk, run, pc, rawDoc, mediaFiles, existingCache, cached, toScan,
              removed, newCacheFiles, clusters, processed, lastCacheSave, phase, merged,
              pendingSave, saveCount, result, prev, events, socket,
    detectedAt, activeFiles>>

InitLimiter ==
    /\ limit \in Limits
    /\ dirFiles = <<>>
    /\ mtimeOf = <<>>
    /\ envChanged = FALSE
    /\ disk = NoCache
    /\ run = 0
    /\ pc = "limiter"
    /\ aborted = FALSE
    /\ abortPc = "none"
    /\ rawDoc = NoCache
    /\ mediaFiles = <<>>
    /\ existingCache = NoCache
    /\ cached = <<>>
    /\ toScan = <<>>
    /\ removed = {}
    /\ newCacheFiles = <<>>
    /\ clusters = <<>>
    /\ processed = 0
    /\ lastCacheSave = 0
    /\ lim = NewLimiter(Range(AllFiles))
    /\ phase = <<>>
    /\ merged = <<>>
    /\ pendingSave = <<>>
    /\ saveCount = 0
    /\ result = NoResult
    /\ prev = NoPrev
    /\ events = <<>>
    /\ detectedAt = <<>>
    /\ activeFiles = <<>>
    /\ socket = NoSocket

\* limiter(fn) for a task not yet submitted
LimiterSubmit(t) ==
    /\ lim.promise[t] = "none"
    /\ lim' = submit(lim, t, limit, aborted)
    /\ UNCHANGED <<limit, aborted, abortPc, scanVars>>

\* a running task's fn returns
LimiterComplete(t) ==
    /\ t \in Running(lim)
    /\ lim' = settle(lim, t, "processed", limit, aborted)
    /\ UNCHANGED <<limit, aborted, abortPc, scanVars>>

\* a running task's fn throws
LimiterFail(t) ==
    /\ t \in Running(lim)
    /\ lim' = settle(lim, t, "rejected", limit, aborted)
    /\ UNCHANGED <<limit, aborted, abortPc, scanVars>>

\* signal.abort(): the 'abort' listener runs clearQueue
LimiterAbort ==
    /\ ~aborted
    /\ aborted' = TRUE
    /\ abortPc' = pc
    /\ lim' = clearQueue(lim)
    /\ UNCHANGED <<limit, scanVars>>

NextLimiter ==
    \/ \E t \in Range(AllFiles) : LimiterSubmit(t)
    \/ \E t \in Range(AllFiles) : LimiterComplete(t)
    \/ \E t \in Range(AllFiles) : LimiterFail(t)
    \/ LimiterAbort

SpecLimiter == InitLimiter /\ [][NextLimiter]_vars

\* ------------------------------------------------------------------ clustering alone
\* assignToClusters called with an arbitrary sequence of face samples; merged
\* holds the samples in the order they were fed.
Embeddings == {0, 52, 53, 78, 104}
SamplePaths == {PathA, PathB}

clusterRest == <<limit, dirFiles, mtimeOf, envChanged, disk, run, pc, aborted, abortPc, rawDoc,
                 mediaFiles, existingCache, cached, toScan, removed, newCacheFiles, processed,
                 lastCacheSave, lim, phase, pendingSave, saveCount, result, prev, events, socket,
    detectedAt, activeFiles>>

InitCluster ==
    /\ limit = 1
    /\ dirFiles = <<>>
    /\ mtimeOf = <<>>
    /\ envChanged = FALSE
    /\ disk = NoCache
    /\ run = 0
    /\ pc = "clustering"
    /\ aborted = FALSE
    /\ abortPc = "none"
    /\ rawDoc = NoCache
    /\ mediaFiles = <<>>
    /\ existingCache = NoCache
    /\ cached = <<>>
    /\ toScan = <<>>
    /\ removed = {}
    /\ newCacheFiles = <<>>
    /\ clusters = <<>>
    /\ processed = 0
    /\ lastCacheSave = 0
    /\ lim = NewLimiter({})
    /\ phase = <<>>
    /\ merged = <<>>
    /\ pendingSave = <<>>
    /\ saveCount = 0
    /\ result = NoResult
    /\ prev = NoPrev
    /\ events = <<>>
    /\ detectedAt = <<>>
    /\ activeFiles = <<>>
    /\ socket = NoSocket

\* assignToClusters(clusters, faceSample)
Assign(d, p) ==
    /\ pc = "clustering"
    /\ Len(merged) < MaxAssign
    /\ clusters' = assignToClusters(clusters, [descriptor |-> d, path |-> p])
    /\ merged' = Append(merged, [descriptor |-> d, path |-> p])
    /\ UNCHANGED clusterRest

NextCluster == \E d \in Embeddings, p \in SamplePaths : Assign(d, p)

SpecCluster == InitCluster /\ [][NextCluster]_vars

\* ------------------------------------------------------------------ cache file alone
\* The cache file written by saveFaceCache while loadFaceCache (called by
\* getScanHistory or by another scan) reads it.  fs.writeFile opens the file
\* with flag 'w', which truncates it, and writes the text afterwards.
\* pendingSave holds the document of the write in progress, prev the last
\* document written completely, rawDoc and existingCache what the last load
\* read and returned.
StoreFiles ==
    {<<>>,
     NormalizePath(PathA) :> CacheEntry(1, detectFacesInFile(PathA)),
     NormalizePath(PathA) :> CacheEntry(2, detectFacesInFile(PathA)),
     (NormalizePath(PathA) :> CacheEntry(2, detectFacesInFile(PathA)))
        @@ (NormalizePath(PathB) :> CacheEntry(2, detectFacesInFile(PathB)))}

\* the file between the open that truncates it and the end of the write
Truncated == Malformed

storeRest == <<limit, dirFiles, mtimeOf, envChanged, run, pc, aborted, abortPc, mediaFiles,
               cached, toScan, removed, newCacheFiles, clusters, processed, lastCacheSave,
               lim, phase, merged, result, events, socket,
    detectedAt, activeFiles>>

InitStore ==
    /\ limit = 1
    /\ dirFiles = <<>>
    /\ mtimeOf = <<>>
    /\ envChanged = FALSE
    /\ disk \in {NoCache, saveFaceCache(<<>>)}
    /\ run = 0
    /\ pc = "store"
    /\ aborted = FALSE
    /\ abortPc = "none"
    /\ rawDoc = NoCache
    /\ mediaFiles = <<>>
    /\ existingCache = NoCache
    /\ cached = <<>>
    /\ toScan = <<>>
    /\ removed = {}
    /\ newCacheFiles = <<>>
    /\ clusters = <<>>
    /\ processed = 0
    /\ lastCacheSave = 0
    /\ lim = NewLimiter({})
    /\ phase = <<>>
    /\ merged = <<>>
    /\ pendingSave = <<>>
    /\ saveCount = 0
    /\ result = NoResult
    /\ prev = [kind |-> "doc", doc |-> disk]
    /\ events = <<>>
    /\ detectedAt = <<>>
    /\ activeFiles = <<>>
    /\ socket = NoSocket

\* saveFaceCache called: fs.writeFile opens (and truncates) the file
WriteBegin(files) ==
    /\ pc = "store"
    /\ pendingSave = <<>>
    /\ saveCount < MaxSaves
    /\ pendingSave' = Put(pendingSave, "writeFile", saveFaceCache(files))
    /\ disk' = Truncated
    /\ UNCHANGED <<storeRest, rawDoc, existingCache, saveCount, prev>>

\* fs.writeFile has written the whole text
WriteEnd ==
    /\ pc = "store"
    /\ pendingSave # <<>>
    /\ disk' = pendingSave["writeFile"]
    /\ prev' = [kind |-> "doc", doc |-> pendingSave["writeFile"]]
    /\ pendingSave' = <<>>
    /\ saveCount' = saveCount + 1
    /\ UNCHANGED <<storeRest, rawDoc, existingCache>>

\* loadFaceCache, from getScanHistory or from another scan
Load ==
    /\ pc = "store"
    /\ rawDoc' = disk
    /\ existingCache' = loadFaceCache(disk)
    /\ UNCHANGED <<storeRest, disk, pendingSave, saveCount, prev>>

NextStore ==
    \/ \E files \in StoreFiles : WriteBegin(files)
    \/ WriteEnd
    \/ Load

SpecStore == InitStore /\ [][NextStore]_vars

\* ------------------------------------------------------------------ properties
\* the current call has been through categorizeFiles
Diffed ==
    \/ pc \in {"scanning", "rejected"}
    \/ pc = "returned" /\ result.kind = "summary" /\ result.hasStats

\* the previous call returned a summary with cacheStats
PrevReturned == prev.kind = "run" /\ prev.result.kind = "summary" /\ prev.result.hasStats

\* no file was added, removed or modified since the previous call
Unmodified == prev.kind = "run" /\ ~prev.changed /\ prev.mediaFiles = mediaFiles

CachedPaths == {cached[i].path : i \in DOMAIN cached}

\* the files of a cluster summary, cluster by cluster
Membership(faces) == {Range(faces[i].paths) : i \in DOMAIN faces}

\* C1: after a scan that completed without cancellation, a second scan of the
\* unmodified directory finds every enumerated file unchanged, submits nothing
\* to the limiter, never calls the detector and reports cacheStats.scanned = 0.
C1_SecondScanAllCached ==
    (PrevReturned /\ ~prev.result.cancelled /\ Unmodified /\ Diffed)
        => /\ toScan = <<>>
           /\ CachedPaths = Range(mediaFiles)
           /\ Len(cached) = Len(mediaFiles)
           /\ lim.submitted = <<>>
           /\ lim.called = {}
           /\ processed = 0
           /\ (pc = "returned" => result.cacheStats.scanned = 0)

C1_Witness ==
    /\ PrevReturned /\ ~prev.result.cancelled /\ Unmodified
    /\ prev.result.cacheStats.scanned > 0
    /\ pc = "returned" /\ result.kind = "summary" /\ result.hasStats
    /\ ~result.cancelled
    /\ result.cacheStats.scanned = 0
    /\ result.cacheStats.cached = Len(mediaFiles)
    /\ mediaFiles # <<>>

\* C2 as stated: two scans in succession of an unmodified directory return
\* the same clusters (same number, same files in each), whatever the limit
\* and whatever the order in which the first scan's tasks completed.
C2_SameClustersAnyOrder ==
    (PrevReturned /\ ~prev.result.cancelled /\ Unmodified
       /\ pc = "returned" /\ result.kind = "summary" /\ result.hasStats)
        => /\ Len(result.faces) = Len(prev.result.faces)
           /\ Membership(result.faces) = Membership(prev.result.faces)

\* C2 amended: the second scan returns the summary of the first whenever the
\* first fed the files to clustering in enumeration order (its cached files
\* first, then its tasks completing in submission order).
C2_SameClustersSameOrder ==
    (PrevReturned /\ ~prev.result.cancelled /\ Unmodified
       /\ prev.merged = prev.mediaFiles
       /\ pc = "returned" /\ result.kind = "summary" /\ result.hasStats)
        => result.faces = prev.result.faces

C2_Witness ==
    /\ PrevReturned /\ ~prev.result.cancelled /\ Unmodified
    /\ prev.merged = prev.mediaFiles
    /\ prev.result.cacheStats.scanned >= 2
    /\ pc = "returned" /\ result.kind = "summary" /\ result.hasStats
    /\ result.cacheStats.scanned = 0
    /\ Len(result.faces) >= 2
    /\ \E i \in DOMAIN result.faces : result.faces[i].count >= 2

\* C3: categorizeFiles partitions the enumerated files: cached holds exactly
\* the files with a cache entry under the normalized path whose mtime equals
\* the file's current mtime, toScan holds every other file, and each file is
\* in exactly one of the two lists, once.
C3_CategorizePartition ==
    [][(pc = "loading" /\ pc' = "scanning") =>
        LET inCached == {cached'[i].path : i \in DOMAIN cached'}
            inToScan == Range(toScan')
            entries == FilesOf(existingCache')
        IN /\ existingCache' = loadFaceCache(disk)
           /\ \A f \in Range(mediaFiles) :
                 LET key == NormalizePath(f)
                     hit == key \in DOMAIN entries /\ entries[key].mtime = mtimeOf[f]
                 IN /\ (f \in inCached) <=> hit
                    /\ (f \in inToScan) <=> ~hit
           /\ inCached \cup inToScan = Range(mediaFiles)
           /\ inCached \cap inToScan = {}
           /\ Len(cached') + Len(toScan') = Len(mediaFiles)
           /\ \A i \in DOMAIN cached' :
                 cached'[i].data = entries[NormalizePath(cached'[i].path)]
    ]_vars

C3_Witness ==
    /\ pc = "scanning"
    /\ cached # <<>>
    /\ \E f \in Range(toScan) : NormalizePath(f) \notin DOMAIN FilesOf(existingCache)
    /\ \E f \in Range(toScan) :
          /\ NormalizePath(f) \in DOMAIN FilesOf(existingCache)
          /\ FilesOf(existingCache)[NormalizePath(f)].mtime > mtimeOf[f]
    /\ \E f \in Range(toScan) :
          /\ NormalizePath(f) \in DOMAIN FilesOf(existingCache)
          /\ FilesOf(existingCache)[NormalizePath(f)].mtime < mtimeOf[f]

\* the tasks of the current call by the state of their promise
Processed == {t \in DOMAIN lim.promise : lim.promise[t] = "processed"}
Skipped == {t \in DOMAIN lim.promise : lim.promise[t] = "skipped"}

\* C4: no document saved by a scan holds an entry under a key of `removed`
\* (a cache key whose file is no longer in the enumerated set).
C4_RemovedNotSaved ==
    saveCount > 0 => removed \cap DOMAIN disk.files = {}

\* C5: after a scan cancelled during scanning has returned, a scan of the
\* unmodified directory submits to the limiter exactly the files whose tasks
\* were skipped; no file that was rehydrated or whose task completed (its
\* entry is in the saved cache) reaches the detector again.
C5_ResumeOnlySkipped ==
    (PrevReturned /\ prev.result.cancelled /\ Unmodified /\ Diffed)
        => /\ Range(toScan) = {t \in DOMAIN prev.promise : prev.promise[t] = "skipped"}
           /\ \A f \in Range(toScan) : f \notin Range(prev.cached)
           /\ \A f \in Range(toScan) : prev.promise[f] # "processed"
           /\ lim.called \subseteq Range(toScan)
           /\ Range(lim.submitted) = Range(toScan)

C5_Witness ==
    /\ PrevReturned /\ prev.result.cancelled /\ Unmodified
    /\ prev.result.cacheStats.scanned >= 1
    /\ \E t \in DOMAIN prev.promise : prev.promise[t] = "skipped"
    /\ pc = "returned" /\ result.kind = "summary" /\ result.hasStats /\ ~result.cancelled
    /\ result.cacheStats.scanned = Cardinality({t \in DOMAIN prev.promise : prev.promise[t] = "skipped"})
    /\ result.cacheStats.cached >= 1

\* C6: when the signal is aborted while scan tasks are queued or running, the
\* call ends by returning a summary tagged cancelled, after saving a cache
\* that holds an entry for every completed file; the clusters are those of
\* the cached and the completed files, cacheStats.scanned the number of
\* completed tasks.
C6_CancelledSummary ==
    (abortPc = "scanning" /\ pc \in {"returned", "rejected"})
        => /\ result.kind = "summary"
           /\ result.cancelled
           /\ result.hasStats
           /\ result.cacheStats.scanned = Cardinality(Processed)
           /\ Range(merged) = CachedPaths \cup Processed
           /\ result.faces = clustersToFaces(clusters)
           /\ \A f \in Processed : NormalizePath(f) \in DOMAIN disk.files

\* C7: a summary not tagged cancelled is complete: every enumerated file was
\* rehydrated or had its task run to completion, cached + scanned equals
\* totalFiles, every enumerated file has an entry in the saved cache, and no
\* task was skipped.
C7_UncancelledIsComplete ==
    (pc = "returned" /\ result.kind = "summary" /\ ~result.cancelled)
        => /\ \A f \in Range(mediaFiles) : f \in CachedPaths \/ f \in Processed
           /\ Skipped = {}
           /\ result.totalFiles = Len(mediaFiles)
           /\ (mediaFiles # <<>>) => result.hasStats
           /\ result.hasStats =>
                 /\ result.cacheStats.cached + result.cacheStats.scanned = result.totalFiles
                 /\ result.cacheStats.scanned = Cardinality(Processed)
                 /\ \A f \in Range(mediaFiles) : NormalizePath(f) \in DOMAIN disk.files

\* (sanity) C6 on the calls none of whose tasks threw
C6_WhenNoTaskThrows ==
    (\A t \in DOMAIN lim.promise : lim.promise[t] # "rejected") => C6_CancelledSummary

C7_Witness ==
    /\ pc = "returned" /\ result.kind = "summary" /\ ~result.cancelled /\ result.hasStats
    /\ result.cacheStats.cached >= 1
    /\ result.cacheStats.scanned >= 2
    /\ limit >= 2

\* position of x in the sequence s (0 when absent)
RECURSIVE IndexOf(_, _)
IndexOf(s, x) ==
    IF s = <<>> THEN 0
    ELSE IF s[Len(s)] = x /\ x \notin Range(SubSeq(s, 1, Len(s) - 1)) THEN Len(s)
    ELSE IndexOf(SubSeq(s, 1, Len(s) - 1), x)

Queued == {t \in DOMAIN lim.promise : lim.promise[t] = "queued"}
Settled == {t \in DOMAIN lim.promise : lim.promise[t] \in {"processed", "rejected"}}

\* C8: the number of tasks started and not yet finished never exceeds the
\* concurrency limit (and `active` counts exactly those tasks).
C8_ActiveWithinLimit ==
    /\ Cardinality(Running(lim)) <= limit
    /\ lim.active = Cardinality(Running(lim))

C8_Witness ==
    /\ Cardinality(Running(lim)) = limit
    /\ Len(lim.queue) >= 2
    /\ \E t \in DOMAIN lim.promise : lim.promise[t] = "rejected"
    /\ \E t \in DOMAIN lim.promise : lim.promise[t] = "processed"

\* C9: tasks start in submission order - a started task was submitted before
\* every task still queued and after every task started before it - and a
\* task starts only in the step that submits it while a slot is free, or in a
\* step in which a running task finishes.
C9_FifoStart ==
    [][/\ \A i, j \in DOMAIN lim'.started :
             i < j => IndexOf(lim'.submitted, lim'.started[i]) < IndexOf(lim'.submitted, lim'.started[j])
       /\ \A t \in Range(lim'.started), q \in Range(lim'.queue) :
             IndexOf(lim'.submitted, t) < IndexOf(lim'.submitted, q)
       /\ \A t \in Running(lim') \ Running(lim) :
             \/ lim.promise[t] = "none" /\ lim.active < limit /\ lim.queue = <<>>
             \/ /\ lim.promise[t] = "queued"
                /\ t = Head(lim.queue)
                /\ \E u \in Running(lim) : lim'.promise[u] \in {"processed", "rejected"}
       /\ Cardinality(Running(lim') \ Running(lim)) <= 1
    ]_vars

C9_Witness ==
    /\ Len(lim.started) >= limit + 2
    /\ Len(lim.queue) >= 1
    /\ lim.submitted # AllFiles
    /\ Len(lim.submitted) = Len(AllFiles)

\* C10: once the signal is aborted no further task is started and no fn is
\* called: the tasks queued at the abort resolve as skipped in that step, a
\* task submitted afterwards resolves as skipped at once, and nothing stays
\* queued.
C10_NoStartAfterAbort ==
    [][/\ (~aborted /\ aborted') =>
             /\ \A t \in Queued : lim'.promise[t] = "skipped"
             /\ lim'.called = lim.called
       /\ aborted =>
             /\ lim'.called = lim.called
             /\ lim'.started = lim.started
             /\ \A t \in DOMAIN lim.promise :
                   (lim.promise[t] = "none" /\ lim'.promise[t] # "none") => lim'.promise[t] = "skipped"
       /\ aborted' => lim'.queue = <<>> /\ \A t \in DOMAIN lim'.promise : lim'.promise[t] # "queued"
    ]_vars

C10_Witness ==
    /\ aborted
    /\ Cardinality(Skipped) >= 3
    /\ Skipped \cap lim.called = {}
    /\ Len(lim.queue) = 0
    /\ Settled # {}
    /\ Len(lim.submitted) = Len(AllFiles)
    /\ Cardinality(lim.called) = 2

\* C11: a task running when the signal is aborted is not interrupted: from
\* then on it leaves the running state only by finishing its body, with its
\* cache entry in newCacheFiles and its detections fed to clustering, and the
\* cancellation save and the return of scanFaces happen only when no task is
\* running any more.
C11_InFlightFinishes ==
    [][/\ aborted' =>
             \A f \in Running(lim) :
                \/ f \in Running(lim')
                \/ /\ lim'.promise[f] \in {"processed", "rejected"}
                   /\ phase'[f] = "done"
                   /\ f \in Range(merged')
                   /\ NormalizePath(f) \in DOMAIN newCacheFiles'
                   /\ newCacheFiles'[NormalizePath(f)] = CacheEntry(mtimeOf[f], detectFacesInFile(f))
                   /\ \A i \in DOMAIN Descriptors(f) :
                         \E k \in DOMAIN clusters' :
                            /\ f \in Range(clusters'[k].paths)
                            /\ Descriptors(f)[i] \in Range(clusters'[k].descriptors)
       /\ (aborted /\ pc = "scanning" /\ (pc' = "returned" \/ saveCount' # saveCount))
             => \/ Running(lim) = {} /\ pc' = "returned"
                   /\ disk' = saveFaceCache(newCacheFiles)
                   /\ lim.called \subseteq Range(merged)
                \/ \E f \in Running(lim) : phase[f] = "saving" /\ pc' # "returned"
    ]_vars

C11_Witness ==
    /\ abortPc = "scanning"
    /\ pc = "scanning"
    /\ limit = 2
    /\ Len(lim.started) = 2
    /\ Skipped # {}
    /\ Cardinality(Running(lim)) = 1
    /\ Cardinality(Processed) = 1
    /\ Processed \subseteq Range(merged)

\* C12: an exception thrown by the function of a limiter task is absorbed by
\* the runner: the task's promise is never rejected, the scan is never
\* rejected, and the call still ends with a summary.
C12_TaskFailureAbsorbed ==
    /\ \A t \in DOMAIN lim.promise : lim.promise[t] # "rejected"
    /\ pc # "rejected"
    /\ result.kind # "error"

\* C17: a file whose modification time differs (newer or older) from the
\* mtime of the cache entry it kept is reprocessed by the next scan - it is in
\* toScan, not rehydrated, and submitted to the limiter - and the entry its
\* task writes, and the document saved at the end, carry the file's new mtime
\* (stated for as long as nothing is touched again after the scan).
C17_TouchedIsRescanned ==
    (Diffed /\ ~envChanged) =>
        \A f \in Range(mediaFiles) :
            LET key == NormalizePath(f)
                entries == FilesOf(existingCache)
            IN (key \in DOMAIN entries /\ entries[key].mtime # mtimeOf[f]) =>
                  /\ f \in Range(toScan)
                  /\ f \notin CachedPaths
                  /\ f \in Range(lim.submitted)
                  /\ phase[f] \in {"saving", "done"} =>
                        /\ f \in lim.called
                        /\ newCacheFiles[key].mtime = mtimeOf[f]
                  /\ (pc = "returned" /\ ~result.cancelled) =>
                        /\ f \in Processed
                        /\ disk.files[key].mtime = mtimeOf[f]

C17_Witness ==
    /\ PrevReturned /\ ~prev.result.cancelled /\ prev.changed
    /\ prev.mediaFiles = mediaFiles
    /\ pc = "returned" /\ result.kind = "summary" /\ result.hasStats /\ ~result.cancelled
    /\ mtimeOf[PathB] = 1
    /\ FilesOf(existingCache)[NormalizePath(PathB)].mtime = 2
    /\ Processed = {PathB}
    /\ disk.files[NormalizePath(PathB)].mtime = 1

\* the cache file found by the current call is not a document of the current
\* schema version
InvalidDoc(doc) == doc.raw # "json" \/ doc.version # CACHE_VERSION

\* C18: loadFaceCache never throws: the step that loads the cache always
\* goes on to scanning, and when the file is missing, unreadable, not valid
\* JSON or of another version the load gives null and the scan is a cold
\* start (nothing cached, nothing rehydrated, every file submitted).
C18_LoadFailsSoft ==
    [][(pc = "loading" /\ pc' # "loading") =>
          /\ pc' = "scanning"
          /\ existingCache' # Thrown
          /\ InvalidDoc(disk) =>
                /\ existingCache' = NoCache
                /\ cached' = <<>>
                /\ toScan' = mediaFiles
                /\ removed' = {}
                /\ clusters' = <<>>
                /\ newCacheFiles' = <<>>
                /\ lim'.submitted = mediaFiles
    ]_vars

C18_Witness ==
    /\ rawDoc = Malformed
    /\ pc = "returned" /\ result.kind = "summary" /\ result.hasStats /\ ~result.cancelled
    /\ result.cacheStats.cached = 0
    /\ result.cacheStats.scanned = Len(TrioFiles)
    /\ disk.raw = "json"

\* the entry a task of the current call writes for file f
FreshEntry(f) == CacheEntry(mtimeOf[f], detectFacesInFile(f))

\* C19: when the cache document has another version than CACHE_VERSION the
\* scan is a full rescan without merge: every enumerated file is in toScan,
\* nothing is rehydrated (all that is fed to clustering comes from a task of
\* this call), and every entry of newCacheFiles and of the documents the scan
\* saves was written by a task of this call (stated for as long as nothing is
\* touched after the scan).
C19_VersionMismatchFullRescan ==
    (Diffed /\ ~envChanged /\ rawDoc.raw = "json" /\ rawDoc.version # CACHE_VERSION) =>
        /\ existingCache = NoCache
        /\ cached = <<>>
        /\ toScan = mediaFiles
        /\ removed = {}
        /\ Range(merged) \subseteq lim.called
        /\ \A k \in DOMAIN clusters : Range(clusters[k].paths) \subseteq Range(merged)
        /\ \A key \in DOMAIN newCacheFiles :
              \E f \in Range(merged) : key = NormalizePath(f) /\ newCacheFiles[key] = FreshEntry(f)
        /\ saveCount > 0 =>
              \A key \in DOMAIN disk.files :
                 \E f \in Range(merged) : key = NormalizePath(f) /\ disk.files[key] = FreshEntry(f)

C19_Witness ==
    /\ rawDoc = OldDoc
    /\ pc = "returned" /\ result.kind = "summary" /\ result.hasStats /\ ~result.cancelled
    /\ result.cacheStats.scanned = Len(CapFiles)
    /\ disk.files[NormalizePath(PathA)] = FreshEntry(PathA)
    /\ OldDoc.files[NormalizePath(PathA)] # FreshEntry(PathA)
    /\ NormalizePath(PathG) \notin DOMAIN disk.files

\* distance of embedding d to the centroid c, as the fraction num/den
DistNum(d, c) == Abs(d * c.den - c.num)

\* cluster i is a nearest cluster of clusters cs for the embedding d
IsNearest(cs, d, i) ==
    \A j \in DOMAIN cs :
        DistNum(d, cs[i].centroid) * cs[j].centroid.den <= DistNum(d, cs[j].centroid) * cs[i].centroid.den

WithinThreshold(d, c) == DistNum(d, c) <= FACE_DISTANCE_THRESHOLD * c.den

\* C13: assignToClusters adds the detection to the existing cluster whose
\* centroid (as it is before the call) is nearest exactly when a cluster
\* exists and that distance is <= FACE_DISTANCE_THRESHOLD, leaving the other
\* clusters alone; otherwise it appends a cluster whose only member is the
\* detection and whose centroid is the detection's embedding.
C13_JoinIffWithinThreshold ==
    [][(merged' # merged) =>
          LET s == merged'[Len(merged')]
              d == s.descriptor
              joins == \E i \in DOMAIN clusters :
                          IsNearest(clusters, d, i) /\ WithinThreshold(d, clusters[i].centroid)
          IN IF joins
             THEN /\ Len(clusters') = Len(clusters)
                  /\ \E i \in DOMAIN clusters :
                        /\ IsNearest(clusters, d, i)
                        /\ clusters'[i].descriptors = Append(clusters[i].descriptors, d)
                        /\ Range(clusters'[i].paths) = Range(clusters[i].paths) \cup {s.path}
                        /\ \A j \in DOMAIN clusters : j # i => clusters'[j] = clusters[j]
             ELSE clusters' = Append(clusters, [centroid |-> [num |-> d, den |-> 1],
                                                descriptors |-> <<d>>,
                                                paths |-> <<s.path>>])
    ]_vars

\* 78 joined {0, 52} at distance exactly 52 from its centroid 26 (it is 78
\* from the member 0); 104, farther than 52 from the centroid 130/3, did not
C13_Witness ==
    /\ Len(clusters) = 2
    /\ clusters[1].descriptors = <<0, 52, 78>>
    /\ clusters[2].descriptors = <<104>>
    /\ Len(merged) = 4
    /\ merged[4].descriptor = 104
    /\ clusters[1].paths = <<PathA, PathB>>

\* sum of the members of a cluster
RECURSIVE MemberSum(_)
MemberSum(ds) == IF ds = <<>> THEN 0 ELSE Head(ds) + MemberSum(Tail(ds))

\* C14: after any sequence of assignToClusters calls the centroid of every
\* cluster is the arithmetic mean of the embeddings of its members:
\* centroid * memberCount = sum of the members.
C14_CentroidIsMean ==
    \A k \in DOMAIN clusters :
        /\ clusters[k].descriptors # <<>>
        /\ clusters[k].centroid.den > 0
        /\ clusters[k].centroid.num * Len(clusters[k].descriptors)
              = MemberSum(clusters[k].descriptors) * clusters[k].centroid.den

C14_Witness ==
    /\ Len(clusters) = 2
    /\ clusters[1].descriptors = <<0, 52, 78>>
    /\ clusters[1].centroid = [num |-> 130, den |-> 3]
    /\ Len(clusters[2].descriptors) = 1

\* the clusters of a summary as a set of (files, count) pairs
Groups(faces) == {[files |-> Range(faces[i].paths), count |-> faces[i].count] : i \in DOMAIN faces}

\* C15: a scan of the directory {p, q, r} - p and q with one detection each
\* and the same embedding, r with one detection farther than the threshold
\* from them - that is not cancelled returns exactly two clusters, {p, q} with
\* count 2 and {r} with count 1, for every limit and every completion order.
C15_TwoOfThree ==
    (mediaFiles = TrioFiles /\ pc = "returned" /\ result.kind = "summary" /\ ~result.cancelled)
        => /\ Len(result.faces) = 2
           /\ result.groupCount = 2
           /\ Groups(result.faces) = {[files |-> {PathP, PathQ}, count |-> 2],
                                      [files |-> {PathR}, count |-> 1]}

\* r completed first, then q, then p
C15_Witness ==
    /\ mediaFiles = TrioFiles
    /\ pc = "returned" /\ result.kind = "summary" /\ ~result.cancelled
    /\ limit = 3
    /\ merged = <<PathR, PathQ, PathP>>
    /\ Len(result.faces) = 2
    /\ result.faces[1].paths = <<PathQ, PathP>>

\* number of descriptors in the clusters cs
RECURSIVE ClusteredCount(_)
ClusteredCount(cs) ==
    IF cs = <<>> THEN 0 ELSE Len(Head(cs).descriptors) + ClusteredCount(Tail(cs))

\* number of samples the files fs may feed to clustering
RECURSIVE FedCount(_)
FedCount(fs) ==
    IF fs = <<>> THEN 0
    ELSE Min(Len(Descriptors(Head(fs))), MAX_SAMPLES) + FedCount(Tail(fs))

\* C16: every cache entry a scan writes holds at most MAX_SAMPLES detections;
\* the entry of a file with more detections holds exactly the first
\* MAX_SAMPLES of them, and only those are fed to clustering.
C16_SampleCap ==
    /\ \A key \in DOMAIN newCacheFiles : Len(newCacheFiles[key].faces) <= MAX_SAMPLES
    /\ \A key \in DOMAIN disk.files : Len(disk.files[key].faces) <= MAX_SAMPLES
    /\ \A f \in Range(merged) :
          LET ds == Descriptors(f)
              entry == newCacheFiles[NormalizePath(f)]
          IN Len(ds) > MAX_SAMPLES =>
                /\ Len(entry.faces) = MAX_SAMPLES
                /\ \A i \in 1..MAX_SAMPLES : entry.faces[i].descriptor = ds[i]
    /\ ClusteredCount(clusters) = FedCount(merged)
    /\ \A k \in DOMAIN clusters : 900 \notin Range(clusters[k].descriptors)

C16_Witness ==
    /\ mediaFiles = CapFiles
    /\ pc = "returned" /\ result.kind = "summary" /\ ~result.cancelled
    /\ Processed = {PathH, PathA}
    /\ Len(detectFacesInFile(PathH)) = MAX_SAMPLES + 1
    /\ disk.files[NormalizePath(PathH)].facesCount = MAX_SAMPLES + 1
    /\ Len(disk.files[NormalizePath(PathH)].faces) = MAX_SAMPLES
    /\ ClusteredCount(clusters) = MAX_SAMPLES + 1

\* C20: a load of the cache file never reads a half-written document: what
\* it reads is the last document written completely or the whole document of
\* the write in progress.
C20_LoadSeesWholeDocument ==
    [][(rawDoc' # rawDoc) => rawDoc' \in {prev.doc} \cup Range(pendingSave)]_vars

\* ------------------------------------------------------------------ failing saves
\* A directory of six files on a volume where any write of the cache file may
\* fail (disk full, permissions): the fifth completed file triggers a
\* checkpoint while the sixth is still queued or in flight.  The progress
\* callback does not throw here.
SixFiles == AllFiles \o <<PathG>>

InitFailing ==
    /\ limit \in Limits
    /\ dirFiles = SixFiles
    /\ mtimeOf = [f \in Range(SixFiles) |-> 2]
    /\ envChanged = FALSE
    /\ disk = NoCache
    /\ run = 0
    /\ pc = "idle"
    /\ aborted = FALSE
    /\ abortPc = "none"
    /\ rawDoc = NoCache
    /\ mediaFiles = <<>>
    /\ existingCache = NoCache
    /\ cached = <<>>
    /\ toScan = <<>>
    /\ removed = {}
    /\ newCacheFiles = <<>>
    /\ clusters = <<>>
    /\ processed = 0
    /\ lastCacheSave = 0
    /\ lim = NewLimiter({})
    /\ phase = <<>>
    /\ merged = <<>>
    /\ pendingSave = <<>>
    /\ saveCount = 0
    /\ result = NoResult
    /\ prev = NoPrev
    /\ events = <<>>
    /\ detectedAt = <<>>
    /\ activeFiles = <<>>
    /\ socket = NoSocket

\* (one call of scanFaces)
NextFailing ==
    \/ run = 0 /\ StartScan("ok")
    \/ CheckCancelled
    \/ CacheDiff
    \/ \E f \in Range(SixFiles) : TaskDetect(f)
    \/ \E f \in Range(SixFiles) : TaskMerge(f, FALSE)
    \/ \E f \in Range(SixFiles), saveFails \in BOOLEAN : TaskSaveDone(f, FALSE, saveFails)
    \/ Abort
    \/ \E saveFails \in BOOLEAN : Finalize(saveFails)

SpecFailing == InitFailing /\ [][NextFailing]_vars

\* a step on which a save of the cache file ends without having written it
SaveFailed ==
    /\ saveCount' = saveCount
    /\ \/ \E f \in DOMAIN phase : phase[f] = "saving" /\ phase'[f] = "done"
       \/ pc = "scanning" /\ pc' # "scanning" /\ Pending(lim) = {}

\* C21: a failing write of the cache file is absorbed: the call does not
\* reject and no task's promise rejects, the failing save leaves the entries,
\* the clusters and the processed count as they were, and a call that returns
\* uncancelled has processed every file to scan and returns the summary of
\* its in-memory clusters.
C21_SaveFailureAbsorbed ==
    [][/\ pc' # "rejected"
       /\ \A f \in DOMAIN lim'.promise : lim'.promise[f] # "rejected"
       /\ SaveFailed => /\ newCacheFiles' = newCacheFiles
                        /\ clusters' = clusters
                        /\ processed' = processed
                        /\ disk' = disk
       /\ (pc' = "returned" /\ result'.kind = "summary" /\ ~result'.cancelled) =>
             /\ Processed' = Range(toScan')
             /\ \A f \in Range(toScan') : NormalizePath(f) \in DOMAIN newCacheFiles'
             /\ ClusteredCount(clusters') = FedCount(merged')
             /\ result' = Summary(FALSE, Len(toScan))']_vars

\* both the checkpoint and the final save of a six-file scan failed
C21_Witness ==
    /\ pc = "returned" /\ result.kind = "summary" /\ ~result.cancelled
    /\ run = 1
    /\ Len(toScan) = Len(SixFiles)
    /\ lastCacheSave = CACHE_SAVE_INTERVAL
    /\ saveCount = 0
    /\ disk = NoCache
    /\ result.cacheStats.scanned = Len(SixFiles)

\* ------------------------------------------------------------------ save points
\* a step on which a scan task finishes merging its file
Completes == processed' = processed + 1

\* a step on which some task starts a save of the document as it now is
StartsSave ==
    \E f \in DOMAIN phase \cap DOMAIN phase' :
        /\ phase[f] # "saving" /\ phase'[f] = "saving"
        /\ f \in DOMAIN pendingSave'
        /\ pendingSave'[f] = saveFaceCache(newCacheFiles')

\* a step on which the scanning phase of a call ends, by a return or, for a
\* call whose signal was aborted, otherwise
EndsScan ==
    /\ pc = "scanning"
    /\ pc' = "returned" \/ (pc' # "scanning" /\ aborted)

\* the save points of a scan: a checkpoint starts exactly when a file
\* completes with CACHE_SAVE_INTERVAL or more completions since
\* lastCacheSave, it does not end the scanning phase, and the end of the
\* scanning phase writes the whole in-memory document
SavePoints ==
    /\ Completes => /\ StartsSave <=> (processed' - lastCacheSave >= CACHE_SAVE_INTERVAL)
                    /\ StartsSave => pc' = pc
    /\ ~Completes => ~StartsSave
    /\ EndsScan => /\ disk' = saveFaceCache(newCacheFiles)
                   /\ saveCount' = saveCount + 1

\* C22: the cache document is saved whenever CACHE_SAVE_INTERVAL or more
\* files completed since the last recorded save, and once more when the scan
\* ends, on normal completion and on cancellation alike.
C22_PeriodicAndFinalSave == [][SavePoints]_vars

\* the same on steps after which no task has thrown
C22_WhenNoTaskThrows ==
    [][(\A t \in DOMAIN lim'.promise : lim'.promise[t] # "rejected") => SavePoints]_vars

\* a checkpoint was written during scanning and the final save after it
C22_Witness ==
    /\ pc = "returned" /\ result.kind = "summary" /\ ~result.cancelled
    /\ lastCacheSave = CACHE_SAVE_INTERVAL
    /\ saveCount = 2
    /\ disk = saveFaceCache(newCacheFiles)

\* ------------------------------------------------------------------ invalid root
\* a call that failed at the validation of its root and did nothing else
FailedFast ==
    /\ pc = "failed"
    /\ result.kind = "error"
    /\ events = <<>>
    /\ detectedAt = <<>>
    /\ activeFiles = <<>>
    /\ mediaFiles = <<>>
    /\ lim.submitted = <<>> /\ lim.called = {}
    /\ rawDoc = NoCache
    /\ saveCount = 0 /\ pendingSave = <<>>

\* C23: a call whose root path is empty, missing or unreadable rejects
\* (with code ENOENT for a missing path) before anything else happens: no
\* progress event, no enumeration, no detector call, no read or write of the
\* cache file.
C23_InvalidRootFailsFast ==
    [][/\ \A root \in Roots \ {"ok"} :
             StartScan(root) => /\ FailedFast'
                                /\ disk' = disk
                                /\ (root = "missing") => result'.code = "ENOENT"
       /\ (pc' = "failed") => FailedFast']_vars

\* a call on an unreadable root failed
C23_Witness ==
    /\ FailedFast
    /\ result.code = "EACCES"
    /\ run = 1

\* ------------------------------------------------------------------ empty directory
\* a call that found no media file and went straight to done
EmptyReturn ==
    /\ pc = "returned"
    /\ Len(events) = 3
    /\ events[1].phase = "init" /\ events[2].phase = "collect"
    /\ events[3].phase = "done"
    /\ events[3].current = 0 /\ events[3].total = 0 /\ events[3].faces = <<>>
    /\ result.kind = "summary"
    /\ result.faces = <<>> /\ result.totalFiles = 0 /\ result.groupCount = 0
    /\ ~result.cancelled
    /\ rawDoc = NoCache /\ existingCache = NoCache
    /\ saveCount = 0 /\ pendingSave = <<>>
    /\ lim.submitted = <<>> /\ lim.called = {}
    /\ clusters = <<>>

\* C24: when the enumerator returns no media file the call emits a done
\* event with zero counts and no cluster and returns the empty summary,
\* without loading or saving the cache and without submitting a task.
C24_EmptyGoesToDone ==
    [][/\ (dirFiles = <<>> /\ StartScan("ok")) => (EmptyReturn' /\ disk' = disk)
       /\ (dirFiles' = <<>> /\ run' > 0) => EmptyReturn']_vars

\* an empty directory scanned twice next to an existing cache file
C24_Witness ==
    /\ dirFiles = <<>>
    /\ run = 2
    /\ EmptyReturn
    /\ disk = PriorDoc

\* ------------------------------------------------------------------ event order
\* the macro-state a progress event belongs to
PhaseRank(name) ==
    CASE name = "init" -> 1
      [] name = "collect" -> 2
      [] name = "cache" -> 3
      [] name = "scan" -> 4
      [] name = "cache-save" -> 5
      [] name = "process" -> 6
      [] name = "done" -> 7
      [] OTHER -> 0

PhasesOf(evs) == [i \in DOMAIN evs |-> evs[i].phase]

CountPhase(name) == Cardinality({i \in DOMAIN events : events[i].phase = name})

\* C25: the progress events of a call follow the order init, collect, cache,
\* scan (one or more), cache-save, process, done: no event of an earlier
\* phase follows one of a later phase, so no scan event follows the start of
\* finalization; every phase but scan occurs at most once; a call that
\* returned uncancelled emitted exactly one done event, as its last event; a
\* call that reached scanning emitted at least one scan event; a
\* cancelled call emitted no done event.
C25_EventOrder ==
    /\ \A i \in DOMAIN events : PhaseRank(events[i].phase) > 0
    /\ \A i \in 1..(Len(events) - 1) :
          \/ PhaseRank(events[i].phase) < PhaseRank(events[i + 1].phase)
          \/ events[i].phase = "scan" /\ events[i + 1].phase = "scan"
    /\ \A i \in DOMAIN events : i <= 3 => PhaseRank(events[i].phase) = i \/ events[i].phase = "done"
    /\ pc \in {"scanning", "rejected"} =>
          /\ Len(events) >= 4
          /\ SubSeq(PhasesOf(events), 1, 4) = <<"init", "collect", "cache", "scan">>
          /\ CountPhase("cache-save") = 0 /\ CountPhase("process") = 0
    /\ (pc = "returned" /\ result.kind = "summary" /\ ~result.cancelled) =>
          /\ CountPhase("done") = 1
          /\ events[Len(events)].phase = "done"
          /\ result.hasStats =>
                /\ CountPhase("scan") >= 1
                /\ SubSeq(PhasesOf(events), Len(events) - 2, Len(events))
                      = <<"cache-save", "process", "done">>
                /\ events[Len(events)].faces = result.faces
    /\ ~(pc = "returned" /\ result.kind = "summary" /\ ~result.cancelled) =>
          CountPhase("done") = 0

\* a scan with several scan events (one file cached, four scanned) that
\* ran to its done event
C25_Witness ==
    /\ pc = "returned" /\ result.kind = "summary" /\ ~result.cancelled
    /\ Len(cached) = 1 /\ Len(toScan) = 4
    /\ CountPhase("scan") >= 5
    /\ events[Len(events)].phase = "done"
    /\ events[Len(events)].current = Len(AllFiles)

\* ------------------------------------------------------------------ cluster summaries
\* clustersToFaces applied to cluster lists as assignToClusters builds them:
\* up to MaxGroups people far apart from each other, person k in the first
\* n photos of an album and a second time in the first photo.
Digits == <<"0", "1", "2", "3", "4", "5", "6", "7", "8", "9">>

PhotoName(i) == <<"u", "\\", Digits[(i \div 10) + 1], Digits[(i % 10) + 1]>>

GroupSizes == {1, 2, MAX_RESULTS_PER_FACE, MAX_RESULTS_PER_FACE + 1}

PersonSamples(k, n) ==
    [i \in 1..(n + 1) |->
        [descriptor |-> 1000 * k, path |-> PhotoName(IF i <= n THEN i ELSE 1)]]

RECURSIVE AlbumSamples(_, _)
AlbumSamples(sizes, k) ==
    IF k > Len(sizes) THEN <<>>
    ELSE PersonSamples(k, sizes[k]) \o AlbumSamples(sizes, k + 1)

\* the samples of the first k people fed to assignToClusters, one by one
RECURSIVE AlbumClusters(_, _)
AlbumClusters(sizes, k) ==
    IF k = 0 THEN <<>>
    ELSE AssignAll(AlbumClusters(sizes, k - 1), PersonSamples(k, sizes[k]))

SizeLists == UNION {[1..n -> GroupSizes] : n \in 1..MaxGroups}

facesRest == <<limit, dirFiles, mtimeOf, envChanged, disk, run, aborted, abortPc, rawDoc,
               mediaFiles, existingCache, cached, toScan, removed, newCacheFiles, processed,
               lastCacheSave, lim, phase, pendingSave, saveCount, prev, events, socket,
    detectedAt, activeFiles>>

InitFaces ==
    /\ limit = 1
    /\ dirFiles = <<>>
    /\ mtimeOf = <<>>
    /\ envChanged = FALSE
    /\ disk = NoCache
    /\ run = 0
    /\ pc = "clustered"
    /\ aborted = FALSE
    /\ abortPc = "none"
    /\ rawDoc = NoCache
    /\ mediaFiles = <<>>
    /\ existingCache = NoCache
    /\ cached = <<>>
    /\ toScan = <<>>
    /\ removed = {}
    /\ newCacheFiles = <<>>
    /\ \E sizes \in SizeLists :
          /\ merged = AlbumSamples(sizes, 1)
          /\ clusters = AlbumClusters(sizes, Len(sizes))
    /\ processed = 0
    /\ lastCacheSave = 0
    /\ lim = NewLimiter({})
    /\ phase = <<>>
    /\ pendingSave = <<>>
    /\ saveCount = 0
    /\ result = NoResult
    /\ prev = NoPrev
    /\ events = <<>>
    /\ detectedAt = <<>>
    /\ activeFiles = <<>>
    /\ socket = NoSocket

\* clustersToFaces(clusters)
ToFaces ==
    /\ pc = "clustered"
    /\ result' = [kind |-> "faces", faces |-> clustersToFaces(clusters)]
    /\ pc' = "listed"
    /\ UNCHANGED <<clusters, merged, facesRest>>

NextFaces == ToFaces

SpecFaces == InitFaces /\ [][NextFaces]_vars

\* the distinct files among the samples of person k
FilesOfPerson(k) ==
    {merged[i].path : i \in {j \in DOMAIN merged : merged[j].descriptor = 1000 * k}}

\* C26: in a summary made by clustersToFaces every cluster's file list has
\* no duplicate and at most MAX_RESULTS_PER_FACE entries, all of them files
\* of the cluster; its count is the number of distinct files of the cluster
\* (hence at least the length of the list); the clusters come by count,
\* largest first, one summary entry per cluster.
C26_FaceSummaries ==
    (pc = "listed") =>
        LET faces == result.faces
        IN /\ Len(faces) = Len(clusters)
           /\ {faces[i].id : i \in DOMAIN faces} = DOMAIN clusters
           /\ \A i \in DOMAIN faces :
                 /\ Cardinality(Range(faces[i].paths)) = Len(faces[i].paths)
                 /\ Len(faces[i].paths) <= MAX_RESULTS_PER_FACE
                 /\ Range(faces[i].paths) \subseteq FilesOfPerson(faces[i].id)
                 /\ faces[i].count = Cardinality(FilesOfPerson(faces[i].id))
                 /\ faces[i].count >= Len(faces[i].paths)
           /\ \A i, j \in DOMAIN faces : i < j => faces[i].count >= faces[j].count

\* three people, the last one in more photos than the list shows, summarised
\* first
C26_Witness ==
    /\ pc = "listed"
    /\ Len(result.faces) = 3
    /\ result.faces[1].id = 3
    /\ result.faces[1].count = MAX_RESULTS_PER_FACE + 1
    /\ Len(result.faces[1].paths) = MAX_RESULTS_PER_FACE
    /\ Len(clusters[3].descriptors) = MAX_RESULTS_PER_FACE + 2
    /\ result.faces[3].count = 1

\* ------------------------------------------------------------------ entry after detection
\* the files whose task has not got its detections yet
Undetected == {f \in DOMAIN phase : phase[f] = "detect"}

\* the entry of file f in the map `files` is none or the one the loaded
\* cache had
NoNewEntry(files, f) ==
    LET key == NormalizePath(f)
    IN key \in DOMAIN files =>
          /\ key \in DOMAIN FilesOf(existingCache)
          /\ files[key] = FilesOf(existingCache)[key]

\* C27: a file's entry is written to the in-memory document only after the
\* file's own detector call completed: while the call is queued or in flight
\* the in-memory document, every document handed to a save and the file
\* written by this call hold no new entry for the file (at most the entry
\* the loaded cache had for it).
C27_EntryAfterDetection ==
    \A f \in Undetected :
        /\ NoNewEntry(newCacheFiles, f)
        /\ \A g \in DOMAIN pendingSave : NoNewEntry(pendingSave[g].files, f)
        /\ saveCount > 0 => NoNewEntry(disk.files, f)

\* a checkpoint of five entries was written while the sixth file is in the
\* detector
C27_Witness ==
    /\ pc = "scanning"
    /\ saveCount = 1
    /\ disk.raw = "json"
    /\ Cardinality(DOMAIN disk.files) = CACHE_SAVE_INTERVAL
    /\ \E f \in Undetected : f \in Running(lim)

\* ------------------------------------------------------------------ single pass
IsPrefix(s, t) == Len(s) <= Len(t) /\ SubSeq(t, 1, Len(s)) = s

\* C28: over the assignToClusters calls of a scan the cluster list only
\* grows: a call adds exactly one detection, every cluster keeps its place,
\* its members and its files (members are only appended, so no cluster is
\* removed, merged or split and no detection changes cluster), and no
\* cluster is empty.
C28_ClustersOnlyGrow ==
    [][(merged' # merged) =>
          /\ Len(clusters') >= Len(clusters)
          /\ Len(clusters') <= Len(clusters) + 1
          /\ \A i \in DOMAIN clusters :
                /\ IsPrefix(clusters[i].descriptors, clusters'[i].descriptors)
                /\ IsPrefix(clusters[i].paths, clusters'[i].paths)
          /\ ClusteredCount(clusters') = ClusteredCount(clusters) + 1
          /\ \A i \in DOMAIN clusters' :
                /\ Len(clusters'[i].descriptors) >= 1
                /\ Len(clusters'[i].paths) >= 1
    ]_vars

\* four samples made two clusters, the first one of three members
C28_Witness ==
    /\ pc = "clustering"
    /\ Len(merged) = 4
    /\ Len(clusters) = 2
    /\ Len(clusters[1].descriptors) = 3
    /\ merged[2].descriptor = 104
    /\ clusters[2].descriptors = <<104>>

\* ------------------------------------------------------------------ no lost update
\* the files whose task has merged its detections
Completed == {f \in DOMAIN phase : phase[f] \in {"saving", "done"}}

\* the clusters whose file set holds f
ClustersOf(f) == {i \in DOMAIN clusters : f \in Range(clusters[i].paths)}

\* C29: whatever the order in which concurrent tasks complete, no update of
\* the cluster list or of the in-memory document is lost: every completed
\* file was fed to clustering exactly once and has its own entry in the
\* document, every rehydrated or completed file with a face is in a cluster,
\* and the clusters hold as many members as the rehydrated and completed
\* files have (capped) detections.
C29_NoLostUpdate ==
    Diffed =>
        /\ Range(merged) = CachedPaths \cup Completed
        /\ Cardinality(Range(merged)) = Len(merged)
        /\ \A f \in Completed :
              /\ NormalizePath(f) \in DOMAIN newCacheFiles
              /\ newCacheFiles[NormalizePath(f)].facesCount = Len(detectFacesInFile(f))
              /\ newCacheFiles[NormalizePath(f)].faces
                    = [i \in DOMAIN SliceSamples(detectFacesInFile(f)) |->
                          [descriptor |-> detectFacesInFile(f)[i].descriptor]]
        /\ \A f \in Range(merged) : (detectFacesInFile(f) # <<>>) => ClustersOf(f) # {}
        /\ \A i \in DOMAIN clusters : Range(clusters[i].paths) \subseteq Range(merged)
        /\ ClusteredCount(clusters) = FedCount(merged)

\* five files scanned three at a time, completed in another order than
\* they were started
C29_Witness ==
    /\ pc = "returned" /\ result.kind = "summary" /\ ~result.cancelled
    /\ limit = 3
    /\ Len(toScan) = Len(AllFiles)
    /\ Completed = Range(AllFiles)
    /\ merged # toScan
    /\ merged[1] = PathC
    /\ ClusteredCount(clusters) = 5

\* ------------------------------------------------------------------ socket handler
\* setupFaceScanSocket for one connection.  socket.scans lists the
\* face-scan:start requests of the connection, each scan with its own
\* AbortController: aborted is its signal, abortedBy the handler that aborted
\* it, state where its face-scan:start handler is ("refused": no sourcePath,
\* "running": awaiting scanFaces), cancelled
\* whether the summary scanFaces returned is tagged cancelled, progress the
\* number of onProgress calls so far.  socket.current is the index of the
\* scan whose controller currentAbortController holds (0: null);
\* socket.emitted the events sent to the client.  scanFaces itself is
\* abstract here: it may call onProgress, return a summary (tagged cancelled
\* only if its signal is aborted) or throw.
Connected == [connected |-> TRUE, current |-> 0, scans |-> <<>>, emitted |-> <<>>]

NewScan == [aborted |-> FALSE, abortedBy |-> "none", state |-> "running",
            cancelled |-> FALSE, progress |-> 0]

Emit(name, scan, cancelled) == [name |-> name, scan |-> scan, cancelled |-> cancelled]

\* currentAbortController.abort(), if there is a current controller
AbortCurrent(scans, current, by) ==
    IF current = 0 \/ scans[current].aborted THEN scans
    ELSE [scans EXCEPT ![current].aborted = TRUE, ![current].abortedBy = by]

socketRest == <<limit, dirFiles, mtimeOf, envChanged, disk, run, pc, aborted, abortPc, rawDoc,
                mediaFiles, existingCache, cached, toScan, removed, newCacheFiles, clusters,
                processed, lastCacheSave, lim, phase, merged, pendingSave, saveCount, result,
                prev, events,
    detectedAt, activeFiles>>

InitSocket ==
    /\ limit = 1
    /\ dirFiles = <<>>
    /\ mtimeOf = <<>>
    /\ envChanged = FALSE
    /\ disk = NoCache
    /\ run = 0
    /\ pc = "socket"
    /\ aborted = FALSE
    /\ abortPc = "none"
    /\ rawDoc = NoCache
    /\ mediaFiles = <<>>
    /\ existingCache = NoCache
    /\ cached = <<>>
    /\ toScan = <<>>
    /\ removed = {}
    /\ newCacheFiles = <<>>
    /\ clusters = <<>>
    /\ processed = 0
    /\ lastCacheSave = 0
    /\ lim = NewLimiter({})
    /\ phase = <<>>
    /\ merged = <<>>
    /\ pendingSave = <<>>
    /\ saveCount = 0
    /\ result = NoResult
    /\ prev = NoPrev
    /\ events = <<>>
    /\ detectedAt = <<>>
    /\ activeFiles = <<>>
    /\ socket = Connected

\* socket.on('face-scan:start'), up to the call of scanFaces
SocketStart(hasPath) ==
    /\ pc = "socket"
    /\ socket.connected
    /\ Len(socket.scans) < MaxScans
    /\ IF ~hasPath
       THEN socket' = [socket EXCEPT
                          !.scans = Append(@, [NewScan EXCEPT !.state = "refused"]),
                          !.emitted = Append(@, Emit("face-scan:error", Len(socket.scans) + 1,
                                                     FALSE))]
       ELSE socket' = [socket EXCEPT
                          !.scans = Append(AbortCurrent(@, socket.current, "start"), NewScan),
                          !.current = Len(socket.scans) + 1]
    /\ UNCHANGED socketRest

\* socket.on('face-scan:stop')
SocketStop ==
    /\ pc = "socket"
    /\ socket.connected
    /\ IF socket.current = 0
       THEN UNCHANGED socket
       ELSE socket' = [socket EXCEPT
                          !.scans = AbortCurrent(@, socket.current, "stop"),
                          !.current = 0,
                          !.emitted = Append(@, Emit("face-scan:stopped", 0, FALSE))]
    /\ UNCHANGED socketRest

\* socket.on('disconnect')
Disconnect ==
    /\ pc = "socket"
    /\ socket.connected
    /\ socket' = [socket EXCEPT
                     !.connected = FALSE,
                     !.scans = AbortCurrent(@, socket.current, "disconnect"),
                     !.current = 0]
    /\ UNCHANGED socketRest

\* sendProgress, called by the running scan i
SendProgress(i) ==
    /\ pc = "socket"
    /\ i \in DOMAIN socket.scans
    /\ socket.scans[i].state = "running"
    /\ socket.scans[i].progress < MaxProgress
    /\ socket' = [socket EXCEPT
                     !.scans[i].progress = @ + 1,
                     !.emitted = IF ~socket.connected \/ socket.scans[i].aborted THEN @
                                 ELSE Append(@, Emit("face-scan:progress", i, FALSE))]
    /\ UNCHANGED socketRest

\* a start handler that clears currentAbortController without comparing it
\* with its own controller
ScanReturnClearing(i, cancelled) ==
    /\ pc = "socket"
    /\ i \in DOMAIN socket.scans
    /\ socket.scans[i].state = "running"
    /\ cancelled => socket.scans[i].aborted
    /\ socket' = [socket EXCEPT
                     !.scans[i].state = "returned",
                     !.scans[i].cancelled = cancelled,
                     !.current = 0,
                     !.emitted = IF ~socket.connected \/ socket.scans[i].aborted THEN @
                                 ELSE @ \o <<Emit("face-scan:result", i, cancelled),
                                             Emit("face-scan:done", i, FALSE)>>]
    /\ UNCHANGED socketRest

\* the rest of the start handler of scan i after `await scanFaces` resolved
ScanReturn(i, cancelled) ==
    /\ pc = "socket"
    /\ i \in DOMAIN socket.scans
    /\ socket.scans[i].state = "running"
    /\ cancelled => socket.scans[i].aborted
    /\ socket' = [socket EXCEPT
                     !.scans[i].state = "returned",
                     !.scans[i].cancelled = cancelled,
                     !.current = IF @ = i THEN 0 ELSE @,
                     !.emitted = IF ~socket.connected \/ socket.scans[i].aborted THEN @
                                 ELSE @ \o <<Emit("face-scan:result", i, cancelled),
                                             Emit("face-scan:done", i, FALSE)>>]
    /\ UNCHANGED socketRest

\* the catch branch of the start handler of scan i
ScanThrow(i) ==
    /\ pc = "socket"
    /\ i \in DOMAIN socket.scans
    /\ socket.scans[i].state = "running"
    /\ socket' = [socket EXCEPT
                     !.scans[i].state = "threw",
                     !.current = IF @ = i THEN 0 ELSE @,
                     !.emitted = IF socket.scans[i].aborted \/ ~socket.connected THEN @
                                 ELSE Append(@, Emit("face-scan:error", i, FALSE))]
    /\ UNCHANGED socketRest

NextSocket ==
    \/ \E hasPath \in BOOLEAN : SocketStart(hasPath)
    \/ SocketStop
    \/ Disconnect
    \/ \E i \in 1..MaxScans : SendProgress(i)
    \/ \E i \in 1..MaxScans, cancelled \in BOOLEAN : ScanReturn(i, cancelled)
    \/ \E i \in 1..MaxScans : ScanThrow(i)

SpecSocket == InitSocket /\ [][NextSocket]_vars

\* scanFaces of scan i, stopped by face-scan:stop, returns its cancelled
\* summary while the client is connected
StoppedScanReturns(i) ==
    /\ i \in DOMAIN socket.scans
    /\ socket.connected
    /\ socket.scans[i].state = "running"
    /\ socket.scans[i].abortedBy = "stop"
    /\ socket'.scans[i].state = "returned"
    /\ socket'.scans[i].cancelled

\* C30: when a running scan is cancelled by face-scan:stop and the client
\* stays connected, the handler emits face-scan:result with the cancelled
\* summary once scanFaces has returned.
C30_StoppedScanSendsResult ==
    [][\A i \in 1..MaxScans :
          StoppedScanReturns(i) =>
              \E k \in DOMAIN socket'.emitted :
                  socket'.emitted[k] = Emit("face-scan:result", i, TRUE)]_vars

\* what the handler does instead: the stopped scan's return emits nothing,
\* the client got face-scan:stopped when it asked
C30_StoppedScanIsSilent ==
    [][\A i \in 1..MaxScans :
          StoppedScanReturns(i) =>
              /\ socket'.emitted = socket.emitted
              /\ \E k \in DOMAIN socket.emitted : socket.emitted[k].name = "face-scan:stopped"]_vars

\* ------------------------------------------------------------------ overlapping saves
\* the tasks awaiting their checkpoint's saveFaceCache
Saving == {f \in DOMAIN phase : phase[f] = "saving"}

\* C31: the cache-file writes of one scan never overlap: at most one
\* checkpoint save is in flight at any time, and the final or cancellation
\* save starts only when no checkpoint is being written.
C31_SavesNeverOverlap ==
    [][/\ Cardinality(Saving') <= 1
       /\ (pc = "scanning" /\ pc' = "returned") => Saving = {}]_vars

\* the part that holds: the save after Promise.all starts only when every
\* checkpoint write has finished
C31_FinalSaveIsAlone ==
    [][(pc = "scanning" /\ pc' = "returned") => Saving = {}]_vars

\* ------------------------------------------------------------------ modified while scanned
\* Three files, one of which is edited while a scan is working on it.
EditedFiles == <<PathA, PathB, PathC>>

InitTouch ==
    /\ limit \in {1, 2}
    /\ dirFiles = EditedFiles
    /\ mtimeOf = [f \in Range(EditedFiles) |-> 2]
    /\ envChanged = FALSE
    /\ disk = NoCache
    /\ run = 0
    /\ pc = "idle"
    /\ aborted = FALSE
    /\ abortPc = "none"
    /\ rawDoc = NoCache
    /\ mediaFiles = <<>>
    /\ existingCache = NoCache
    /\ cached = <<>>
    /\ toScan = <<>>
    /\ removed = {}
    /\ newCacheFiles = <<>>
    /\ clusters = <<>>
    /\ processed = 0
    /\ lastCacheSave = 0
    /\ lim = NewLimiter({})
    /\ phase = <<>>
    /\ merged = <<>>
    /\ pendingSave = <<>>
    /\ saveCount = 0
    /\ result = NoResult
    /\ prev = NoPrev
    /\ events = <<>>
    /\ detectedAt = <<>>
    /\ activeFiles = <<>>
    /\ socket = NoSocket

\* the file is written to while its scan task is running
TouchRunning(f, m) ==
    /\ pc = "scanning"
    /\ f \in Running(lim)
    /\ phase[f] \in {"detect", "merge"}
    /\ m > mtimeOf[f]
    /\ mtimeOf' = [mtimeOf EXCEPT ![f] = m]
    /\ envChanged' = TRUE
    /\ UNCHANGED <<limit, dirFiles, disk, run, pc, aborted, abortPc, localVars, newCacheFiles,
                   clusters, processed, lastCacheSave, lim, phase, merged, pendingSave,
                   saveCount, result, prev, events, socket>>

NextTouch ==
    \/ StartScan("ok")
    \/ CheckCancelled
    \/ CacheDiff
    \/ \E f \in Range(EditedFiles) : TaskDetect(f)
    \/ \E f \in Range(EditedFiles) : TaskMerge(f, FALSE)
    \/ Finalize(FALSE)
    \/ \E f \in Touchable, m \in Mtimes : TouchRunning(f, m)

SpecTouch == InitTouch /\ [][NextTouch]_vars

\* C32: a cache entry pairs a file's detections with the modification time
\* the file had when it was read for detection, so a file treated as
\* unchanged by the next scan was not modified since its detections were
\* made.
C32_EntryPairsReadTime ==
    /\ \A f \in Completed : newCacheFiles[NormalizePath(f)].mtime = detectedAt[f]
    /\ (Diffed /\ prev.kind = "run") =>
          \A f \in CachedPaths \cap DOMAIN prev.detectedAt :
              FilesOf(existingCache)[NormalizePath(f)].mtime = prev.detectedAt[f]

\* what happens instead: b was modified after the detector read it, its
\* entry carries the later mtime and the next scan takes b from the cache
C32_StaleAccepted ==
    /\ run = 2 /\ pc = "returned"
    /\ prev.detectedAt[PathB] = 2
    /\ FilesOf(existingCache)[NormalizePath(PathB)].mtime = 3
    /\ PathB \in CachedPaths
    /\ toScan = <<>>

\* ------------------------------------------------------------------ termination
\* One call of scanFaces on the three-file directory without a cache file,
\* under the scheduling the runtime gives: a pending continuation of
\* scanFaces or of a task body is eventually run, and every detector call
\* eventually returns.  Whether and when the caller aborts the signal is left
\* open.
InitOnce == InitSmall /\ dirFiles = TrioFiles /\ disk = NoCache

NextOnce ==
    \/ \E root \in Roots : run = 0 /\ StartScan(root)
    \/ CheckCancelled
    \/ CacheDiff
    \/ \E f \in Range(TrioFiles) : TaskDetect(f)
    \/ \E f \in Range(TrioFiles), progressThrows \in BOOLEAN : TaskMerge(f, progressThrows)
    \/ Abort
    \/ Finalize(FALSE)

FairOnce ==
    /\ InitOnce
    /\ [][NextOnce]_vars
    /\ WF_vars(CheckCancelled)
    /\ WF_vars(CacheDiff)
    /\ \A f \in Range(TrioFiles) : WF_vars(TaskDetect(f))
    /\ \A f \in Range(TrioFiles) :
          WF_vars(\E progressThrows \in BOOLEAN : TaskMerge(f, progressThrows))
    /\ WF_vars(Finalize(FALSE))

PromiseSettled(t) ==
    t \in DOMAIN lim.promise /\ lim.promise[t] \in {"processed", "rejected", "skipped"}

PromisePending(t) ==
    t \in DOMAIN lim.promise /\ lim.promise[t] \in {"queued", "running"}

\* C33: every promise the limiter returned settles, with the task's outcome
\* or as skipped, whenever the signal is aborted; once settled it does not
\* change; no task function is started twice; and every call of scanFaces
\* that got past the validation of its root eventually ends.
C33_EveryPromiseSettles ==
    /\ \A t \in Range(TrioFiles) : PromisePending(t) ~> PromiseSettled(t)
    /\ [][\A t \in Range(TrioFiles) :
             (PromiseSettled(t) /\ run' = run) => lim'.promise[t] = lim.promise[t]]_vars
    /\ [](Cardinality(Range(lim.started)) = Len(lim.started))
    /\ [](\A t \in DOMAIN lim.promise : lim.promise[t] # "none")
    /\ (pc \in {"collected", "loading", "scanning"}) ~> (pc \in {"returned", "rejected"})
    /\ (pc = "rejected") ~> (Pending(lim) = {})

\* a scan aborted while one of three tasks ran: that task finished, the
\* queued ones were skipped, and the call returned
C33_Witness ==
    /\ pc = "returned" /\ result.kind = "summary" /\ result.cancelled /\ result.hasStats
    /\ limit = 1
    /\ mediaFiles = TrioFiles
    /\ lim.promise[PathP] = "processed"
    /\ lim.promise[PathQ] = "skipped"
    /\ lim.promise[PathR] = "skipped"
    /\ lim.called = {PathP}

\* ------------------------------------------------------------------ files of the same name
\* collectMedia descends into subdirectories: the tree holds a file named a in
\* two of them, and a third file.
PathT == <<"s", "\\", "a">>

TwinFiles == <<PathA, PathT, PathB>>

InitTwin ==
    /\ limit \in Limits
    /\ dirFiles = TwinFiles
    /\ mtimeOf = [f \in Range(TwinFiles) |-> 2]
    /\ envChanged = FALSE
    /\ disk = NoCache
    /\ run = 0
    /\ pc = "idle"
    /\ aborted = FALSE
    /\ abortPc = "none"
    /\ rawDoc = NoCache
    /\ mediaFiles = <<>>
    /\ existingCache = NoCache
    /\ cached = <<>>
    /\ toScan = <<>>
    /\ removed = {}
    /\ newCacheFiles = <<>>
    /\ clusters = <<>>
    /\ processed = 0
    /\ lastCacheSave = 0
    /\ lim = NewLimiter({})
    /\ phase = <<>>
    /\ merged = <<>>
    /\ pendingSave = <<>>
    /\ saveCount = 0
    /\ result = NoResult
    /\ prev = NoPrev
    /\ events = <<>>
    /\ detectedAt = <<>>
    /\ activeFiles = <<>>
    /\ socket = NoSocket

NextTwin ==
    \/ run = 0 /\ StartScan("ok")
    \/ CheckCancelled
    \/ CacheDiff
    \/ \E f \in Range(TwinFiles) : TaskDetect(f)
    \/ \E f \in Range(TwinFiles), progressThrows \in BOOLEAN : TaskMerge(f, progressThrows)
    \/ Abort
    \/ Finalize(FALSE)

SpecTwin == InitTwin /\ [][NextTwin]_vars

\* the files whose task has started and has not finished its merge step
InFlight == {f \in DOMAIN phase : lim.promise[f] = "running" /\ phase[f] \in {"detect", "merge"}}

\* the events of a step that were sent by sendProgressUpdate
NewUpdates ==
    SelectSeq(SubSeq(events', Len(events) + 1, Len(events')), LAMBDA e : e.activeCount # -1)

\* C34: every event sent by sendProgressUpdate carries as activeCount the
\* number of files whose task had started and had not finished its merge step
\* when the event was sent (the last event of a step is sent in the state the
\* step ends in, each earlier one before one more task started), and that
\* number is at most the concurrency limit.
C34_ActiveCountIsExact ==
    [][LET n == Len(NewUpdates)
       IN \A i \in 1..n :
             /\ NewUpdates[i].activeCount = Cardinality(InFlight') - (n - i)
             /\ NewUpdates[i].activeCount <= limit]_vars

\* two files of the same name are being processed and one event reports one
C34_TwinsCountedOnce ==
    /\ {PathA, PathT} \subseteq InFlight
    /\ events[Len(events)].activeCount = 1

\* ------------------------------------------------------------------ progress counters
ScanIdx == {i \in DOMAIN events : events[i].phase = "scan"}

\* C35: over the scan-phase events of one scan `current` never decreases and
\* lies between 0 and `total`, an event that reports `scanned` reports
\* current = cached + scanned with scanned at most `toScan`, and the done
\* event of a scan that was not cancelled has current = total = the number of
\* files enumerated.
C35_ProgressCounters ==
    /\ \A i, j \in ScanIdx : i < j => events[i].current <= events[j].current
    /\ \A i \in ScanIdx :
          /\ 0 <= events[i].current /\ events[i].current <= events[i].total
          /\ events[i].total = Len(mediaFiles)
          /\ events[i].toScan = Len(toScan)
          /\ events[i].scanned # -1 =>
                /\ 0 <= events[i].scanned /\ events[i].scanned <= events[i].toScan
                /\ events[i].current = Len(cached) + events[i].scanned
    /\ (pc = "returned" /\ result.kind = "summary" /\ ~result.cancelled) =>
          LET done == events[Len(events)]
          IN /\ done.phase = "done"
             /\ done.current = done.total
             /\ done.total = Len(mediaFiles)

\* a scan with a cached and a new file ran to the end: its events reported
\* the cached file first and both files at the end
C35_Witness ==
    /\ pc = "returned" /\ result.kind = "summary" /\ ~result.cancelled
    /\ Len(cached) = 1 /\ Len(toScan) = 1
    /\ \E i, j \in ScanIdx : events[i].current = 1 /\ events[j].current = 2
    /\ events[Len(events)].current = 2

\* ------------------------------------------------------------------ the controller of a socket
\* the scans that were started (a start without sourcePath starts none)
Accepted == {i \in DOMAIN socket.scans : socket.scans[i].state # "refused"}

\* the most recently started scan, 0 when there is none
Latest == IF Accepted = {} THEN 0 ELSE CHOOSE i \in Accepted : \A j \in Accepted : j <= i

\* scan i is still to be cancelled: scanFaces has not returned and its signal
\* is not aborted
Live(i) == socket.scans[i].state = "running" /\ ~socket.scans[i].aborted

\* the start handler of scan i resumes after scanFaces returned or threw
HandlerEnds(i) ==
    /\ i \in DOMAIN socket.scans
    /\ socket.scans[i].state = "running"
    /\ socket'.scans[i].state \in {"returned", "threw"}

\* C36: currentAbortController is null or the controller of the most recently
\* started scan, and it is that controller as long as that scan can still be
\* cancelled; every earlier scan is already aborted or over.  The end of a
\* superseded scan leaves currentAbortController alone, and after a stop
\* request or a disconnect no scan is left running with an unaborted signal.
C36_ControllerIsNewest ==
    /\ [](socket.current \in {0, Latest})
    /\ [](\A i \in Accepted : Live(i) => (i = Latest /\ socket.current = i))
    /\ [][\A i \in 1..MaxScans :
             (HandlerEnds(i) /\ socket.current # i) => socket'.current = socket.current]_vars
    /\ [][(SocketStop \/ Disconnect) => \A i \in Accepted : ~Live(i)']_vars

\* the first scan was superseded by a second one and has returned; the
\* second is running and holds the controller
C36_Witness ==
    /\ Len(socket.scans) = 2
    /\ socket.scans[1].abortedBy = "start" /\ socket.scans[1].state = "returned"
    /\ Live(2)
    /\ socket.current = 2

\* ------------------------------------------------------------------ a superseded scan
\* The scan of a six-file directory started over a socket; while it runs the
\* client may send a second face-scan:start.  The handler of the first start
\* has stored its controller and is about to call scanFaces; the scanFaces
\* call of the second start is not followed.
InitSuperseded ==
    /\ limit \in Limits
    /\ dirFiles = SixFiles
    /\ mtimeOf = [f \in Range(SixFiles) |-> 2]
    /\ envChanged = FALSE
    /\ disk = NoCache
    /\ run = 0
    /\ pc = "idle"
    /\ aborted = FALSE
    /\ abortPc = "none"
    /\ rawDoc = NoCache
    /\ mediaFiles = <<>>
    /\ existingCache = NoCache
    /\ cached = <<>>
    /\ toScan = <<>>
    /\ removed = {}
    /\ newCacheFiles = <<>>
    /\ clusters = <<>>
    /\ processed = 0
    /\ lastCacheSave = 0
    /\ lim = NewLimiter({})
    /\ phase = <<>>
    /\ merged = <<>>
    /\ pendingSave = <<>>
    /\ saveCount = 0
    /\ result = NoResult
    /\ prev = NoPrev
    /\ events = <<>>
    /\ detectedAt = <<>>
    /\ activeFiles = <<>>
    /\ socket = [Connected EXCEPT !.scans = <<NewScan>>, !.current = 1]

\* socket.on('face-scan:start') while the first scan is running: it aborts
\* the controller of the running scan (whose limiter clears its queue) and
\* installs its own
SecondStart ==
    /\ socket.connected
    /\ Len(socket.scans) = 1
    /\ socket.current = 1
    /\ ~aborted
    /\ \/ pc \in {"collected", "loading"}
       \/ pc = "scanning" /\ Pending(lim) # {}
    /\ aborted' = TRUE
    /\ abortPc' = pc
    /\ lim' = IF pc = "scanning" THEN clearQueue(lim) ELSE lim
    /\ socket' = [socket EXCEPT
                     !.scans = Append(AbortCurrent(@, socket.current, "start"), NewScan),
                     !.current = 2]
    /\ UNCHANGED <<limit, dirFiles, mtimeOf, envChanged, disk, run, pc, localVars, newCacheFiles,
                   clusters, processed, lastCacheSave, phase, merged, pendingSave, saveCount,
                   result, prev, events>>

NextSuperseded ==
    \/ run = 0 /\ StartScan("ok")
    \/ CheckCancelled
    \/ CacheDiff
    \/ \E f \in Range(SixFiles) : TaskDetect(f)
    \/ \E f \in Range(SixFiles) : TaskMerge(f, FALSE)
    \/ \E f \in Range(SixFiles) : TaskSaveDone(f, FALSE, FALSE)
    \/ SecondStart
    \/ Finalize(FALSE)

SpecSuperseded == InitSuperseded /\ [][NextSuperseded]_vars

\* a second start has aborted the first scan
Superseded == Len(socket.scans) = 2 /\ socket.scans[1].abortedBy = "start"

\* C37: once a second face-scan:start has aborted the running scan, that scan
\* calls the detector for no further file and writes the cache file no more.
C37_SupersededScanIsIdle ==
    [][Superseded =>
          /\ lim'.called = lim.called
          /\ saveCount' = saveCount
          /\ disk' = disk]_vars

\* the part of C37 about the detector: no task body starts after the abort
C37_NoNewDetectorCall ==
    [][Superseded => lim'.called = lim.called]_vars

\* the superseded scan has written the cache file after it was aborted, with
\* the entries of the tasks that were in flight
C37_SupersededScanSaved ==
    /\ Superseded
    /\ pc = "returned"
    /\ abortPc = "scanning"
    /\ saveCount >= 1
    /\ disk.raw = "json"

\* ------------------------------------------------------------------ equidistant clusters
\* the clusters of cs whose centroid is nearest to the embedding d
NearestSet(cs, d) == {i \in DOMAIN cs : IsNearest(cs, d, i)}

\* C38: when assignToClusters adds a detection to an existing cluster and
\* several centroids are at the same, minimal distance from it, the detection
\* joins the one with the lowest index (the cluster created first) and the
\* others stay as they are.
C38_TieGoesToEarliest ==
    [][(merged' # merged /\ Len(clusters') = Len(clusters)) =>
          LET d == merged'[Len(merged')].descriptor
              first == CHOOSE i \in NearestSet(clusters, d) :
                          \A j \in NearestSet(clusters, d) : i <= j
          IN /\ clusters'[first].descriptors = Append(clusters[first].descriptors, d)
             /\ \A j \in DOMAIN clusters : j # first => clusters'[j] = clusters[j]]_vars

\* clusters {0} and {104} existed when 52 arrived, 52 away from both; it
\* joined the first
C38_Witness ==
    /\ Len(merged) = 3
    /\ merged[1].descriptor = 0 /\ merged[2].descriptor = 104 /\ merged[3].descriptor = 52
    /\ Len(clusters) = 2
    /\ clusters[1].descriptors = <<0, 52>>
    /\ clusters[2].descriptors = <<104>>

====
